---- MODULE Spec2Model ----
(***************************************************************************)
(* A model of the combat and character-progression core of the text RPG:   *)
(* Character (character.py), Item/Equipment (items.py) and Enemy/Combat    *)
(* (combat.py).                                                            *)
(*                                                                         *)
(* Probabilities are kept as integers in thousandths (0.3 is 300), so a    *)
(* draw of random.random() in [0, 1) compared with a chance p can come out *)
(* true exactly when p > 0 and false exactly when p < 1.                   *)
(* Python's int() truncates toward zero; IntTrunc models it.               *)
(***************************************************************************)
EXTENDS Integers, Sequences, FiniteSets, TLC

VARIABLES
    character,      \* the Character object (a record of its fields)
    enemy,          \* the Enemy object of the Combat session
    turn_count,     \* Combat.turn_count
    result,         \* Combat.result
    combat_log,     \* Combat.combat_log (sequence of message kinds)
    is_defending,   \* Combat.is_defending
    flee_attempts,  \* Combat.flee_attempts
    flee_chance,    \* the local flee_chance of the last attempt_flee (0: none yet)
    inventory,      \* the Inventory object (max_capacity and the items dict)
    quest_manager,  \* the QuestManager object (its two dicts and its set)
    enemies_db,     \* the Enemy objects registered in ENEMIES_DB, as they are now
    enemy_ref,      \* which object `enemy` is: a registry key, or NewObject
    call,           \* the last operation called, with its arguments
    ret,            \* what that operation returned
    steps           \* number of operations called so far

vars == <<character, enemy, turn_count, result, combat_log, is_defending,
          flee_attempts, flee_chance, inventory, quest_manager, enemies_db, enemy_ref,
          call, ret, steps>>

combat_vars == <<enemy, turn_count, result, combat_log, is_defending,
                 flee_attempts, flee_chance>>

-----------------------------------------------------------------------------
(* Arithmetic helpers *)

Max(a, b) == IF a >= b THEN a ELSE b
Min(a, b) == IF a <= b THEN a ELSE b

\* int(n / d) for d > 0: truncation toward zero.
IntTrunc(n, d) == IF n >= 0 THEN n \div d ELSE -((-n) \div d)

RECURSIVE Pow(_, _)
Pow(b, e) == IF e <= 0 THEN 1 ELSE b * Pow(b, e - 1)

\* The outcomes of `random.random() < p`, p in thousandths.
Scale == 1000
Bernoulli(p) == {b \in BOOLEAN : (b => p > 0) /\ (~b => p < Scale)}

-----------------------------------------------------------------------------
(* Python floats.  The two places where the code multiplies an integer by  *)
(* the float 0.01 and truncates (the luck bonus to gold, the intelligence  *)
(* bonus to xp) are computed as the interpreter computes them: in IEEE-754 *)
(* binary64 with round-to-nearest-even after every operation.  A float is  *)
(* [m |-> bits, e |-> k]: the significand's bits, least significant first, *)
(* and the value m * 2^k.  Only non-negative values occur.                 *)
(* The other float expressions of the code (x * 0.5, x * 1.5) are exact.   *)

RECURSIVE BitsOf(_)
BitsOf(n) == IF n = 0 THEN <<>> ELSE <<n % 2>> \o BitsOf(n \div 2)

RECURSIVE IntOf(_)
IntOf(bits) == IF bits = <<>> THEN 0 ELSE bits[1] + 2 * IntOf(Tail(bits))

\* bits without its leading (most significant) zeros
RECURSIVE Strip(_)
Strip(bits) ==
    IF bits = <<>> THEN <<>>
    ELSE IF bits[Len(bits)] = 1 THEN bits
    ELSE Strip(SubSeq(bits, 1, Len(bits) - 1))

\* bits * k + carry, for naturals k and carry
RECURSIVE MulBits(_, _, _)
MulBits(bits, k, carry) ==
    IF bits = <<>> THEN BitsOf(carry)
    ELSE LET t == bits[1] * k + carry
         IN  <<t % 2>> \o MulBits(Tail(bits), k, t \div 2)

RECURSIVE AddBits(_, _, _)
AddBits(a, b, carry) ==
    IF a = <<>> /\ b = <<>> THEN BitsOf(carry)
    ELSE LET x == IF a = <<>> THEN 0 ELSE a[1]
             y == IF b = <<>> THEN 0 ELSE b[1]
             t == x + y + carry
         IN  <<t % 2>> \o AddBits(IF a = <<>> THEN a ELSE Tail(a),
                                  IF b = <<>> THEN b ELSE Tail(b), t \div 2)

\* bits * 2^k
ShiftLeft(bits, k) == IF bits = <<>> THEN bits ELSE [i \in 1..k |-> 0] \o bits

\* the four bits of each hexadecimal digit, digits given most significant first
RECURSIVE HexBits(_)
HexBits(digits) ==
    IF digits = <<>> THEN <<>>
    ELSE LET d == digits[Len(digits)]
         IN  <<d % 2, (d \div 2) % 2, (d \div 4) % 2, (d \div 8) % 2>>
             \o HexBits(SubSeq(digits, 1, Len(digits) - 1))

\* binary64 keeps 53 significant bits
Precision == 53

RoundNearestEven(x) ==
    LET n == Len(x.m)
    IN  IF n <= Precision THEN x
        ELSE LET s == n - Precision
                 kept == SubSeq(x.m, s + 1, n)
                 guard == x.m[s]
                 sticky == \E i \in 1..(s - 1) : x.m[i] = 1
                 up == guard = 1 /\ (sticky \/ kept[1] = 1)
             IN  [m |-> IF up THEN AddBits(kept, <<1>>, 0) ELSE kept, e |-> x.e + s]

\* float(k) * x
FloatMulInt(k, x) == RoundNearestEven([m |-> Strip(MulBits(x.m, k, 0)), e |-> x.e])

\* float(k) + x
FloatAddInt(k, x) ==
    RoundNearestEven(
        IF x.e <= 0
        THEN [m |-> AddBits(x.m, ShiftLeft(BitsOf(k), -x.e), 0), e |-> x.e]
        ELSE [m |-> AddBits(ShiftLeft(x.m, x.e), BitsOf(k), 0), e |-> 0])

\* int(x)
FloatToInt(x) ==
    IF x.e >= 0 THEN IntOf(x.m) * Pow(2, x.e)
    ELSE IF -x.e >= Len(x.m) THEN 0
    ELSE IntOf(SubSeq(x.m, 1 - x.e, Len(x.m)))

\* The literal 0.01: 0x147AE147AE147B * 2^-59.
Float001 ==
    [m |-> Strip(HexBits(<<1, 4, 7, 10, 14, 1, 4, 7, 10, 14, 1, 4, 7, 11>>)), e |-> -59]

-----------------------------------------------------------------------------
(* items.py *)

CONSUMABLE == "consumable"
WEAPON == "weapon"
ARMOR == "armor"
ACCESSORY == "accessory"
MATERIAL == "material"

NoStats == [s \in {} |-> 0]

\* Python's None where an item is expected.
NoneItem ==
    [item_id |-> "None", item_type |-> "none", stats |-> NoStats, damage |-> 0,
     defense_bonus |-> 0, effect_type |-> "none", effect_amount |-> 0]

IsNone(item) == item.item_type = "none"

Item(item_id, item_type) ==
    [item_id |-> item_id, item_type |-> item_type, stats |-> NoStats, damage |-> 0,
     defense_bonus |-> 0, effect_type |-> "none", effect_amount |-> 0]

Consumable(item_id, effect_type, effect_amount) ==
    [Item(item_id, CONSUMABLE) EXCEPT !.effect_type = effect_type,
                                      !.effect_amount = effect_amount]

Equipment(item_id, item_type, stats) ==
    [Item(item_id, item_type) EXCEPT !.stats = stats]

Weapon(item_id, damage, stats) ==
    [Equipment(item_id, WEAPON, stats) EXCEPT !.damage = damage]

\* Armor.__init__ adds defense_bonus to the 'defense' entry of the stats it is given.
Armor(item_id, defense_bonus, stats) ==
    LET old == IF "defense" \in DOMAIN stats THEN stats["defense"] ELSE 0
        new == [k \in DOMAIN stats \cup {"defense"} |->
                    IF k = "defense" THEN old + defense_bonus ELSE stats[k]]
    IN  [Equipment(item_id, ARMOR, new) EXCEPT !.defense_bonus = defense_bonus]

Accessory(item_id, stats) == Equipment(item_id, ACCESSORY, stats)

Material(item_id) == Item(item_id, MATERIAL)

\* hasattr(item, 'stats'): the Equipment classes; hasattr(item, 'damage'): Weapon.
HasStats(item) == item.item_type \in {WEAPON, ARMOR, ACCESSORY}
HasDamage(item) == item.item_type = WEAPON

\* The registered items the model uses (a part of the registry).
ITEMS_DB ==
    [health_potion_small |-> Consumable("health_potion_small", "heal", 50),
     elixir_vitality |-> Consumable("elixir_vitality", "max_hp_boost", 20),
     phoenix_down |-> Consumable("phoenix_down", "revive", 50),
     iron_sword |-> Weapon("iron_sword", 12, [strength |-> 5]),
     staff_mage |-> Weapon("staff_mage", 18, [intelligence |-> 15, max_hp |-> 20]),
     cloth_armor |-> Armor("cloth_armor", 3, [max_hp |-> 10]),
     silver_amulet |-> Accessory("silver_amulet", [luck |-> 8, max_hp |-> 15]),
     iron_ore |-> Material("iron_ore"),
     wood_plank |-> Material("wood_plank")]

get_item(item_id) ==
    IF item_id \in DOMAIN ITEMS_DB THEN ITEMS_DB[item_id] ELSE NoneItem

create_item(item_id) ==
    LET template == get_item(item_id)
    IN  IF IsNone(template) THEN NoneItem
        ELSE IF template.item_type = CONSUMABLE
            THEN Consumable(template.item_id, template.effect_type, template.effect_amount)
        ELSE IF template.item_type = WEAPON
            THEN Weapon(template.item_id, template.damage, template.stats)
        ELSE IF template.item_type = ARMOR
            THEN Armor(template.item_id, template.defense_bonus, template.stats)
        ELSE IF template.item_type = ACCESSORY
            THEN Accessory(template.item_id, template.stats)
        ELSE IF template.item_type = MATERIAL
            THEN Material(template.item_id)
        ELSE NoneItem

-----------------------------------------------------------------------------
(* character.py *)

BaseStatNames == {"max_hp", "hp", "strength", "defense", "agility", "intelligence", "luck"}
BonusStatNames == {"max_hp", "strength", "defense", "agility", "intelligence", "luck"}
Slots == {"weapon", "armor", "accessory"}

\* Character.__init__
NewCharacter ==
    [level |-> 1, xp |-> 0, xp_to_next_level |-> 100,
     base_stats |-> [max_hp |-> 100, hp |-> 100, strength |-> 10, defense |-> 10,
                     agility |-> 10, intelligence |-> 10, luck |-> 10],
     equipment_bonuses |-> [max_hp |-> 0, strength |-> 0, defense |-> 0,
                            agility |-> 0, intelligence |-> 0, luck |-> 0],
     equipped |-> [weapon |-> NoneItem, armor |-> NoneItem, accessory |-> NoneItem],
     is_alive |-> TRUE, gold |-> 50, stat_points |-> 5]

get_stat(c, stat_name) ==
    LET base == IF stat_name \in DOMAIN c.base_stats THEN c.base_stats[stat_name] ELSE 0
        bonus == IF stat_name \in DOMAIN c.equipment_bonuses
                 THEN c.equipment_bonuses[stat_name] ELSE 0
    IN  base + bonus

get_max_hp(c) == get_stat(c, "max_hp")

get_current_hp(c) == c.base_stats.hp

\* Mutant of heal: the new HP is not capped at the maximum.
heal_NoCap(c, amount) ==
    [self |-> [c EXCEPT !.base_stats.hp = @ + amount], ret |-> amount]

\* Each method returns [self |-> the character afterwards, ret |-> its return value].
heal(c, amount) ==
    LET old_hp == c.base_stats.hp
        new_hp == Min(get_max_hp(c), c.base_stats.hp + amount)
    IN  [self |-> [c EXCEPT !.base_stats.hp = new_hp], ret |-> new_hp - old_hp]

\* Mutants of ActualDamage: without the floor of 1; with the reduction floored first.
ActualDamage_NoFloor(damage, defense) == IntTrunc(2 * damage - defense, 2)
ActualDamage_FloorReduction(damage, defense) == Max(1, damage - (defense \div 2))

\* actual_damage = max(1, int(damage - defense * 0.5))
ActualDamage(damage, defense) == Max(1, IntTrunc(2 * damage - defense, 2))

Character_take_damage(c, damage) ==
    LET actual_damage == ActualDamage(damage, get_stat(c, "defense"))
        hp == c.base_stats.hp - actual_damage
    IN  [self |-> IF hp <= 0
                  THEN [c EXCEPT !.base_stats.hp = 0, !.is_alive = FALSE]
                  ELSE [c EXCEPT !.base_stats.hp = hp],
         ret |-> actual_damage]

is_dead(c) == ~c.is_alive \/ c.base_stats.hp <= 0

\* int(max_hp * hp_percentage), hp_percentage given in hundredths
revive(c, hp_percent) ==
    IF ~c.is_alive
    THEN [c EXCEPT !.is_alive = TRUE,
                   !.base_stats.hp = (get_max_hp(c) * hp_percent) \div 100]
    ELSE c

\* int(100 * math.pow(1.5, level - 1))
xp_requirement(level) == (100 * Pow(3, level - 1)) \div Pow(2, level - 1)

\* Mutant of level_up: the level is raised whatever the experience.
level_up_NoGuard(c) ==
    LET level == c.level + 1
        c1 == [c EXCEPT !.level = level,
                        !.xp = c.xp - c.xp_to_next_level,
                        !.xp_to_next_level = xp_requirement(level),
                        !.stat_points = @ + 3 + (level \div 5),
                        !.base_stats.max_hp = @ + 10]
    IN  [self |-> [c1 EXCEPT !.base_stats.hp = get_max_hp(c1)], ret |-> TRUE]

\* Mutant of level_up: the experience is reset instead of the threshold subtracted.
level_up_ResetXp(c) ==
    IF c.xp < c.xp_to_next_level THEN [self |-> c, ret |-> FALSE]
    ELSE LET level == c.level + 1
             c1 == [c EXCEPT !.level = level,
                             !.xp = 0,
                             !.xp_to_next_level = xp_requirement(level),
                             !.stat_points = @ + 3 + (level \div 5),
                             !.base_stats.max_hp = @ + 10]
         IN  [self |-> [c1 EXCEPT !.base_stats.hp = get_max_hp(c1)], ret |-> TRUE]

level_up(c) ==
    IF c.xp < c.xp_to_next_level THEN [self |-> c, ret |-> FALSE]
    ELSE LET level == c.level + 1
             c1 == [c EXCEPT !.level = level,
                             !.xp = c.xp - c.xp_to_next_level,
                             !.xp_to_next_level = xp_requirement(level),
                             !.stat_points = @ + 3 + (level \div 5),
                             !.base_stats.max_hp = @ + 10]
         IN  [self |-> [c1 EXCEPT !.base_stats.hp = get_max_hp(c1)], ret |-> TRUE]

\* level_up repeated while it returns True
RECURSIVE LevelUpAll(_)
LevelUpAll(c) == IF level_up(c).ret THEN LevelUpAll(level_up(c).self) ELSE c

\* Mutant of add_xp: the level is raised as often as the experience allows.
add_xp_EveryLevel(c, amount) ==
    LET intel_bonus == FloatAddInt(1, FloatMulInt(get_stat(c, "intelligence"), Float001))
        actual_xp == FloatToInt(FloatMulInt(amount, intel_bonus))
        c1 == [c EXCEPT !.xp = @ + actual_xp]
    IN  IF c1.xp >= c1.xp_to_next_level THEN [self |-> LevelUpAll(c1), ret |-> TRUE]
        ELSE [self |-> c1, ret |-> FALSE]

\* actual_xp = int(amount * (1.0 + intelligence * 0.01))
add_xp(c, amount) ==
    LET intel_bonus == FloatAddInt(1, FloatMulInt(get_stat(c, "intelligence"), Float001))
        actual_xp == FloatToInt(FloatMulInt(amount, intel_bonus))
        c1 == [c EXCEPT !.xp = @ + actual_xp]
    IN  IF c1.xp >= c1.xp_to_next_level THEN level_up(c1)
        ELSE [self |-> c1, ret |-> FALSE]

\* Mutant of allocate_stat: the available points are not checked.
allocate_stat_NoPointsCheck(c, stat_name, points) ==
    IF stat_name \notin DOMAIN c.base_stats THEN [self |-> c, ret |-> FALSE]
    ELSE IF stat_name = "hp" THEN [self |-> c, ret |-> FALSE]
    ELSE LET c1 == IF stat_name = "max_hp"
                   THEN [c EXCEPT !.base_stats.max_hp = @ + points * 5,
                                  !.base_stats.hp = @ + points * 5]
                   ELSE [c EXCEPT !.base_stats[stat_name] = @ + points]
         IN  [self |-> [c1 EXCEPT !.stat_points = @ - points], ret |-> TRUE]

allocate_stat(c, stat_name, points) ==
    IF stat_name \notin DOMAIN c.base_stats THEN [self |-> c, ret |-> FALSE]
    ELSE IF stat_name = "hp" THEN [self |-> c, ret |-> FALSE]
    ELSE IF points > c.stat_points THEN [self |-> c, ret |-> FALSE]
    ELSE LET c1 == IF stat_name = "max_hp"
                   THEN [c EXCEPT !.base_stats.max_hp = @ + points * 5,
                                  !.base_stats.hp = @ + points * 5]
                   ELSE [c EXCEPT !.base_stats[stat_name] = @ + points]
         IN  [self |-> [c1 EXCEPT !.stat_points = @ - points], ret |-> TRUE]

\* item.stats.get(stat, 0)
StatValue(item, stat) == IF stat \in DOMAIN item.stats THEN item.stats[stat] ELSE 0

\* Mutant of unequip_item: the item's bonuses are not taken back.
unequip_item_KeepBonuses(c, slot) ==
    IF slot \notin DOMAIN c.equipped THEN [self |-> c, ret |-> NoneItem]
    ELSE IF IsNone(c.equipped[slot]) THEN [self |-> c, ret |-> NoneItem]
    ELSE [self |-> [c EXCEPT !.equipped[slot] = NoneItem], ret |-> c.equipped[slot]]

\* Mutant of unequip_item: current HP is not clamped to the new maximum.
unequip_item_NoClamp(c, slot) ==
    IF slot \notin DOMAIN c.equipped THEN [self |-> c, ret |-> NoneItem]
    ELSE IF IsNone(c.equipped[slot]) THEN [self |-> c, ret |-> NoneItem]
    ELSE LET item == c.equipped[slot]
             c1 == IF HasStats(item)
                   THEN [c EXCEPT !.equipment_bonuses =
                            [s \in DOMAIN @ |-> @[s] - StatValue(item, s)]]
                   ELSE c
         IN  [self |-> [c1 EXCEPT !.equipped[slot] = NoneItem], ret |-> item]

unequip_item(c, slot) ==
    IF slot \notin DOMAIN c.equipped THEN [self |-> c, ret |-> NoneItem]
    ELSE IF IsNone(c.equipped[slot]) THEN [self |-> c, ret |-> NoneItem]
    ELSE LET item == c.equipped[slot]
             c1 == IF HasStats(item)
                   THEN [c EXCEPT !.equipment_bonuses =
                            [s \in DOMAIN @ |-> @[s] - StatValue(item, s)]]
                   ELSE c
             c2 == IF HasStats(item) /\ "max_hp" \in DOMAIN item.stats
                   THEN [c1 EXCEPT !.base_stats.hp = Min(@, get_max_hp(c1))]
                   ELSE c1
         IN  [self |-> [c2 EXCEPT !.equipped[slot] = NoneItem], ret |-> item]

\* Mutant of equip_item: current HP is not raised with the maximum.
equip_item_NoHpRaise(c, item, slot) ==
    IF slot \notin DOMAIN c.equipped THEN [self |-> c, ret |-> NoneItem]
    ELSE LET old_item == c.equipped[slot]
             c1 == IF ~IsNone(old_item) THEN unequip_item(c, slot).self ELSE c
             c2 == [c1 EXCEPT !.equipped[slot] = item]
             c3 == IF HasStats(item)
                   THEN [c2 EXCEPT !.equipment_bonuses =
                                      [s \in DOMAIN @ |-> @[s] + StatValue(item, s)]]
                   ELSE c2
         IN  [self |-> c3, ret |-> old_item]

equip_item(c, item, slot) ==
    IF slot \notin DOMAIN c.equipped THEN [self |-> c, ret |-> NoneItem]
    ELSE LET old_item == c.equipped[slot]
             c1 == IF ~IsNone(old_item) THEN unequip_item(c, slot).self ELSE c
             c2 == [c1 EXCEPT !.equipped[slot] = item]
             c3 == IF HasStats(item)
                   THEN [c2 EXCEPT !.equipment_bonuses =
                                      [s \in DOMAIN @ |-> @[s] + StatValue(item, s)],
                                   !.base_stats.hp = @ + StatValue(item, "max_hp")]
                   ELSE c2
         IN  [self |-> c3, ret |-> old_item]

\* Mutant of Character.get_attack_damage: the weapon is left out.
Character_get_attack_damage_NoWeapon(c) == get_stat(c, "strength") * 2

Character_get_attack_damage(c) ==
    LET base_damage == get_stat(c, "strength") * 2
        weapon == c.equipped.weapon
    IN  IF ~IsNone(weapon) /\ HasDamage(weapon) THEN base_damage + weapon.damage
        ELSE base_damage

\* min(0.5, agility * 0.01), in thousandths
get_dodge_chance(c) == Min(500, get_stat(c, "agility") * 10)

\* min(0.5, luck * 0.005), in thousandths
get_crit_chance(c) == Min(500, get_stat(c, "luck") * 5)

\* Consumable.use(character) (items.py); revive's hp_percentage is effect_amount / 100
Consumable_use(item, c) ==
    IF item.effect_type = "heal" THEN heal(c, item.effect_amount).self
    ELSE IF item.effect_type = "max_hp_boost"
        THEN [c EXCEPT !.base_stats.max_hp = @ + item.effect_amount,
                       !.base_stats.hp = @ + item.effect_amount]
    ELSE IF item.effect_type = "revive"
        THEN (IF is_dead(c) THEN revive(c, item.effect_amount) ELSE c)
    ELSE c

-----------------------------------------------------------------------------
(* combat.py: Enemy *)

\* Enemy.__init__; the loot table is the dict's (item_id, drop chance) pairs in order,
\* chances in thousandths.
Enemy(enemy_id, level, hp, strength, defense, agility, xp_reward, gold_reward, loot_table) ==
    [enemy_id |-> enemy_id, level |-> level, max_hp |-> hp, hp |-> hp,
     strength |-> strength, defense |-> defense, agility |-> agility,
     xp_reward |-> xp_reward, gold_reward |-> gold_reward, loot_table |-> loot_table]

\* Mutant of Enemy.take_damage: the damage is computed and not subtracted.
Enemy_take_damage_KeepHp(e, damage) ==
    [self |-> e, ret |-> ActualDamage(damage, e.defense)]

Enemy_take_damage(e, damage) ==
    LET actual_damage == ActualDamage(damage, e.defense)
    IN  [self |-> [e EXCEPT !.hp = Max(0, e.hp - actual_damage)], ret |-> actual_damage]

Enemy_is_alive(e) == e.hp > 0

\* max(1, strength * 2 + random.randint(-2, 2)): every value it can return
Enemy_get_attack_damage(e) == {Max(1, e.strength * 2 + variance) : variance \in -2..2}

\* Enemy.get_loot: every list it can return
RECURSIVE LootOutcomes(_)
LootOutcomes(table) ==
    IF table = <<>> THEN {<<>>}
    ELSE {(IF drop THEN <<table[1][1]>> ELSE <<>>) \o rest :
             drop \in Bernoulli(table[1][2]), rest \in LootOutcomes(Tail(table))}

get_loot(e) == LootOutcomes(e.loot_table)

\* The registered enemies the model uses (a part of the registry).
ENEMIES_DB ==
    [slime |-> Enemy("slime", 1, 30, 5, 2, 3, 10, 5,
                     <<<<"health_potion_small", 300>>, <<"leather_scrap", 200>>>>),
     goblin |-> Enemy("goblin", 2, 50, 8, 5, 6, 20, 10,
                      <<<<"health_potion_small", 400>>, <<"iron_ore", 300>>,
                        <<"rusty_sword", 100>>>>),
     vampire |-> Enemy("vampire", 10, 200, 30, 25, 15, 150, 100,
                       <<<<"health_potion_supreme", 300>>, <<"silver_rapier", 150>>,
                         <<"silver_ore", 500>>>>),
     goblin_chief |-> Enemy("goblin_chief", 5, 120, 18, 12, 10, 100, 80,
                            <<<<"health_potion_large", 600>>, <<"steel_sword", 300>>,
                              <<"chain_mail", 200>>, <<"goblin_chief_head", 1000>>>>)]

\* the identity of an object made by a constructor call, which no registry holds
NewObject == "new"

\* Mutant of create_enemy_from: the registered object itself is handed out.
create_enemy_from_Registered(db, enemy_id) ==
    [ref |-> enemy_id, enemy |-> db[enemy_id]]

\* create_enemy on the registry as it is: the object returned and its identity
create_enemy_from(db, enemy_id) ==
    LET template == db[enemy_id]
    IN  [ref |-> NewObject,
         enemy |-> Enemy(template.enemy_id, template.level, template.max_hp,
                         template.strength, template.defense, template.agility,
                         template.xp_reward, template.gold_reward, template.loot_table)]

\* create_enemy on the registry as the module built it
create_enemy(enemy_id) == create_enemy_from(ENEMIES_DB, enemy_id).enemy

\* get_random_enemy_for_level: every enemy it can return
get_random_enemy_for_level(db, level) ==
    LET min_level == Max(1, level - 1)
        max_level == level + 2
        in_range == {id \in DOMAIN db : min_level <= db[id].level /\ db[id].level <= max_level}
        appropriate_enemies == IF in_range = {} THEN DOMAIN db ELSE in_range
    IN  {create_enemy_from(db, id) : id \in appropriate_enemies}

-----------------------------------------------------------------------------
(* combat.py: Combat *)

ATTACK == "attack"
DEFEND == "defend"
USE_ITEM == "use_item"
FLEE == "flee"
CombatAction == {ATTACK, DEFEND, USE_ITEM, FLEE}

ONGOING == "ongoing"
VICTORY == "victory"
DEFEAT == "defeat"
FLED == "fled"
CombatResult == {ONGOING, VICTORY, DEFEAT, FLED}

\* Combat.__init__, as the record the methods below work on.  `ret` is the value the
\* last method returned, `turn_messages` and `done` are execute_turn's local list and
\* whether it has left its loop (break or return).
Combat(c, e) ==
    [character |-> c, enemy |-> e, turn_count |-> 0, result |-> ONGOING,
     combat_log |-> <<>>, is_defending |-> FALSE, flee_attempts |-> 0,
     flee_chance |-> 0, ret |-> <<>>, turn_messages |-> <<>>, done |-> FALSE]

log(st, message) == [st EXCEPT !.combat_log = Append(@, message)]

\* Mutant of get_turn_order: equal rolls put the enemy first.
get_turn_order_TiesToEnemy(st) ==
    LET player_agility == get_stat(st.character, "agility")
        enemy_agility == st.enemy.agility
    IN  {IF player_agility + r1 > enemy_agility + r2
         THEN <<"player", "enemy">> ELSE <<"enemy", "player">> :
            r1 \in 0..10, r2 \in 0..10}

\* Every order get_turn_order can return.
get_turn_order(st) ==
    LET player_agility == get_stat(st.character, "agility")
        enemy_agility == st.enemy.agility
    IN  {IF player_agility + r1 >= enemy_agility + r2
         THEN <<"player", "enemy">> ELSE <<"enemy", "player">> :
            r1 \in 0..10, r2 \in 0..10}

\* int(base_damage * 1.5)
CritDamage(base_damage) == IntTrunc(3 * base_damage, 2)

player_attack(st) ==
    LET base_damage == Character_get_attack_damage(st.character)
        crit_chance == get_crit_chance(st.character)
    IN  {IF is_crit
         THEN [log(st, "player_crit") EXCEPT
                  !.enemy = Enemy_take_damage(st.enemy, CritDamage(base_damage)).self,
                  !.ret = "player_crit"]
         ELSE [log(st, "player_attack") EXCEPT
                  !.enemy = Enemy_take_damage(st.enemy, base_damage).self,
                  !.ret = "player_attack"] :
            is_crit \in Bernoulli(crit_chance)}

\* int(damage * 0.5)
HalfDamage(damage) == IntTrunc(damage, 2)

\* Mutant of enemy_attack: the reduced hit leaves is_defending set.
enemy_attack_KeepDefending(st) ==
    LET dodge_chance == get_dodge_chance(st.character)
        hit(damage) ==
            LET reduced == IF st.is_defending THEN HalfDamage(damage) ELSE damage
                st1 == IF st.is_defending THEN log(st, "defense_reduces") ELSE st
            IN  [log(st1, "enemy_attack") EXCEPT
                    !.character = Character_take_damage(st.character, reduced).self,
                    !.ret = "enemy_attack"]
    IN  UNION {IF dodge THEN {[log(st, "dodged") EXCEPT !.ret = "dodged"]}
               ELSE {hit(damage) : damage \in Enemy_get_attack_damage(st.enemy)} :
                  dodge \in Bernoulli(dodge_chance)}

enemy_attack(st) ==
    LET dodge_chance == get_dodge_chance(st.character)
        hit(damage) ==
            LET reduced == IF st.is_defending THEN HalfDamage(damage) ELSE damage
                st1 == IF st.is_defending
                       THEN [log(st, "defense_reduces") EXCEPT !.is_defending = FALSE]
                       ELSE st
            IN  [log(st1, "enemy_attack") EXCEPT
                    !.character = Character_take_damage(st.character, reduced).self,
                    !.ret = "enemy_attack"]
    IN  UNION {IF dodge THEN {[log(st, "dodged") EXCEPT !.ret = "dodged"]}
               ELSE {hit(damage) : damage \in Enemy_get_attack_damage(st.enemy)} :
                  dodge \in Bernoulli(dodge_chance)}

player_defend(st) == [log(st, "defend") EXCEPT !.is_defending = TRUE, !.ret = "defend"]

\* returns (success, message)
player_use_item(st, item) ==
    IF IsNone(item) THEN [st EXCEPT !.ret = <<FALSE, "no_item">>]
    ELSE IF item.item_type = CONSUMABLE
        THEN [log(st, "item_used") EXCEPT
                 !.character = Consumable_use(item, st.character),
                 !.ret = <<TRUE, "item_used">>]
    ELSE [st EXCEPT !.ret = <<FALSE, "cannot_use">>]

\* Mutant of FleeChance: the chance is not clamped.
FleeChance_NoClamp(attempts, player_agility, level_difference) ==
    500 - attempts * 100 + player_agility * 10 - level_difference * 50

\* flee_chance = max(0.1, min(0.9, 0.5 - attempts * 0.1 + agility * 0.01
\*                                  - (enemy.level - character.level) * 0.05)),
\* in thousandths
FleeChance(attempts, player_agility, level_difference) ==
    Max(100, Min(900, 500 - attempts * 100 + player_agility * 10 - level_difference * 50))

\* Mutant of attempt_flee: a successful flee does not set the result.
attempt_flee_NoResult(st) ==
    LET attempts == st.flee_attempts + 1
        chance == FleeChance(attempts, get_stat(st.character, "agility"),
                             st.enemy.level - st.character.level)
        st1 == [st EXCEPT !.flee_attempts = attempts, !.flee_chance = chance]
    IN  {IF success
         THEN [log(st1, "fled") EXCEPT !.ret = <<TRUE, "escaped">>]
         ELSE [log(st1, "flee_failed") EXCEPT !.ret = <<FALSE, "couldnt_escape">>] :
            success \in Bernoulli(chance)}

\* returns (success, message)
attempt_flee(st) ==
    LET attempts == st.flee_attempts + 1
        chance == FleeChance(attempts, get_stat(st.character, "agility"),
                             st.enemy.level - st.character.level)
        st1 == [st EXCEPT !.flee_attempts = attempts, !.flee_chance = chance]
    IN  {IF success
         THEN [log(st1, "fled") EXCEPT !.result = FLED, !.ret = <<TRUE, "escaped">>]
         ELSE [log(st1, "flee_failed") EXCEPT !.ret = <<FALSE, "couldnt_escape">>] :
            success \in Bernoulli(chance)}

\* turn_messages.append(msg); the value the method returned has been consumed
Say(st, msg) == [st EXCEPT !.turn_messages = Append(@, msg), !.ret = <<>>]

\* `return turn_messages` or `break`
Leave(st) == [st EXCEPT !.done = TRUE]

\* Mutant of CheckEnemyDied: the victory is not recorded.
CheckEnemyDied_NoVictory(st) == st

\* the check after the player's action: if not self.enemy.is_alive()
CheckEnemyDied(st) ==
    IF ~Enemy_is_alive(st.enemy) THEN Leave([st EXCEPT !.result = VICTORY]) ELSE st

\* the check after the enemy's attack: if self.character.is_dead()
CheckPlayerDied(st) ==
    IF is_dead(st.character) THEN Leave([st EXCEPT !.result = DEFEAT]) ELSE st

\* Mutant of PlayerActs: a failed item use does not end the turn.
PlayerActs_ContinueAfterFailedItem(st, player_action, item) ==
    IF player_action = ATTACK
        THEN {CheckEnemyDied(Say(s, s.ret)) : s \in player_attack(st)}
    ELSE IF player_action = DEFEND
        THEN {CheckEnemyDied(Say(player_defend(st), "defend"))}
    ELSE IF player_action = USE_ITEM
        THEN LET s == player_use_item(st, item)
             IN  {CheckEnemyDied(Say(s, s.ret[2]))}
    ELSE IF player_action = FLEE
        THEN {IF s.ret[1] THEN Leave(Say(s, s.ret[2]))
              ELSE CheckEnemyDied(Say(s, s.ret[2])) : s \in attempt_flee(st)}
    ELSE {CheckEnemyDied(st)}

\* The body of execute_turn's loop for the actor 'player'.
PlayerActs(st, player_action, item) ==
    IF player_action = ATTACK
        THEN {CheckEnemyDied(Say(s, s.ret)) : s \in player_attack(st)}
    ELSE IF player_action = DEFEND
        THEN {CheckEnemyDied(Say(player_defend(st), "defend"))}
    ELSE IF player_action = USE_ITEM
        THEN LET s == player_use_item(st, item)
             IN  {IF ~s.ret[1] THEN Leave(Say(s, s.ret[2]))
                  ELSE CheckEnemyDied(Say(s, s.ret[2]))}
    ELSE IF player_action = FLEE
        THEN {IF s.ret[1] THEN Leave(Say(s, s.ret[2]))
              ELSE CheckEnemyDied(Say(s, s.ret[2])) : s \in attempt_flee(st)}
    ELSE {CheckEnemyDied(st)}

\* The body of execute_turn's loop for the actor 'enemy'.
EnemyActs(st) == {CheckPlayerDied(Say(s, s.ret)) : s \in enemy_attack(st)}

\* Mutant of Iteration: the loop does not look at the result before an actor acts.
Iteration_NoResultCheck(st, actor, player_action, item) ==
    IF st.done THEN {st}
    ELSE IF actor = "player" THEN PlayerActs(st, player_action, item)
    ELSE EnemyActs(st)

\* One iteration of `for actor in turn_order`.
Iteration(st, actor, player_action, item) ==
    IF st.done THEN {st}
    ELSE IF st.result # ONGOING THEN {Leave(st)}
    ELSE IF actor = "player" THEN PlayerActs(st, player_action, item)
    ELSE EnemyActs(st)

\* Mutant of execute_turn: a call after the end of the encounter is not counted.
execute_turn_CountOngoingOnly(st, player_action, item) ==
    LET st0 == [st EXCEPT !.turn_messages = <<>>, !.done = FALSE,
                          !.turn_count = IF st.result = ONGOING THEN @ + 1 ELSE @]
    IN  UNION {UNION {Iteration(s1, turn_order[2], player_action, item) :
                         s1 \in Iteration(st0, turn_order[1], player_action, item)} :
                  turn_order \in get_turn_order(st0)}

\* Every state execute_turn can leave the session in; turn_messages is its return value.
execute_turn(st, player_action, item) ==
    LET st0 == [st EXCEPT !.turn_messages = <<>>, !.done = FALSE,
                          !.turn_count = @ + 1]
    IN  UNION {UNION {Iteration(s1, turn_order[2], player_action, item) :
                         s1 \in Iteration(st0, turn_order[1], player_action, item)} :
                  turn_order \in get_turn_order(st0)}

\* int(gold * (luck * 0.01))
GoldBonus(gold, luck) == FloatToInt(FloatMulInt(gold, FloatMulInt(luck, Float001)))

\* Every dict get_rewards can return.
get_rewards(st) ==
    IF st.result # VICTORY THEN {[xp |-> 0, gold |-> 0, loot |-> <<>>]}
    ELSE LET gold == st.enemy.gold_reward
             luck == get_stat(st.character, "luck")
         IN  {[xp |-> st.enemy.xp_reward, gold |-> gold + GoldBonus(gold, luck),
               loot |-> loot] : loot \in get_loot(st.enemy)}

-----------------------------------------------------------------------------
(* inventory.py and crafting.py.  The items dict is a function from the    *)
(* item ids it holds to their quantities.                                  *)

\* Inventory.__init__(max_capacity=50)
DefaultCapacity == 50

Inventory(max_capacity) == [max_capacity |-> max_capacity, items |-> [id \in {} |-> 0]]

\* sum(self.items.values())
RECURSIVE SumOver(_, _)
SumOver(items, ids) ==
    IF ids = {} THEN 0
    ELSE LET id == CHOOSE x \in ids : TRUE
         IN  items[id] + SumOver(items, ids \ {id})

get_total_items(inv) == SumOver(inv.items, DOMAIN inv.items)

\* self.items.get(item_id, 0)
get_item_count(inv, item_id) ==
    IF item_id \in DOMAIN inv.items THEN inv.items[item_id] ELSE 0

has_item(inv, item_id, quantity) == get_item_count(inv, item_id) >= quantity

\* Mutant of add_item: the capacity is not checked.
add_item_NoCapacityCheck(inv, item_id, quantity) ==
    IF IsNone(get_item(item_id)) THEN [self |-> inv, ret |-> FALSE]
    ELSE [self |-> [inv EXCEPT !.items =
                       [id \in DOMAIN @ \cup {item_id} |->
                           IF id = item_id THEN get_item_count(inv, item_id) + quantity
                           ELSE @[id]]],
          ret |-> TRUE]

add_item(inv, item_id, quantity) ==
    IF IsNone(get_item(item_id)) THEN [self |-> inv, ret |-> FALSE]
    ELSE IF get_total_items(inv) + quantity > inv.max_capacity
        THEN [self |-> inv, ret |-> FALSE]
    ELSE [self |-> [inv EXCEPT !.items =
                       [id \in DOMAIN @ \cup {item_id} |->
                           IF id = item_id THEN get_item_count(inv, item_id) + quantity
                           ELSE @[id]]],
          ret |-> TRUE]

remove_item(inv, item_id, quantity) ==
    IF item_id \notin DOMAIN inv.items THEN [self |-> inv, ret |-> FALSE]
    ELSE IF inv.items[item_id] < quantity THEN [self |-> inv, ret |-> FALSE]
    ELSE LET left == inv.items[item_id] - quantity
         IN  [self |-> [inv EXCEPT !.items =
                           IF left <= 0
                           THEN [id \in DOMAIN @ \ {item_id} |-> @[id]]
                           ELSE [@ EXCEPT ![item_id] = left]],
              ret |-> TRUE]

\* Recipe.__init__; materials is the dict in its order, as <<item_id, quantity>> pairs
Recipe(recipe_id, materials, result_item_id) ==
    [recipe_id |-> recipe_id, materials |-> materials, result_item_id |-> result_item_id]

\* the recipes of create_crafting_system that the model keeps
RECIPES ==
    [craft_iron_sword |->
        Recipe("craft_iron_sword", <<<<"iron_ore", 3>>, <<"wood_plank", 1>>>>, "iron_sword")]

\* craft's first loop: remove the materials one after the other, stop at the first
\* that cannot be removed
RECURSIVE RemoveMaterials(_, _)
RemoveMaterials(inv, materials) ==
    IF materials = <<>> THEN [self |-> inv, ret |-> TRUE]
    ELSE LET removed == remove_item(inv, materials[1][1], materials[1][2])
         IN  IF ~removed.ret THEN [self |-> removed.self, ret |-> FALSE]
             ELSE RemoveMaterials(removed.self, Tail(materials))

\* craft's second loop: add every material back
RECURSIVE RestoreMaterials(_, _)
RestoreMaterials(inv, materials) ==
    IF materials = <<>> THEN inv
    ELSE RestoreMaterials(add_item(inv, materials[1][1], materials[1][2]).self,
                          Tail(materials))

\* Recipe.craft(inventory)
craft(recipe, inv) ==
    LET removed == RemoveMaterials(inv, recipe.materials)
    IN  IF ~removed.ret THEN [self |-> removed.self, ret |-> FALSE]
        ELSE LET added == add_item(removed.self, recipe.result_item_id, 1)
             IN  IF ~added.ret
                 THEN [self |-> RestoreMaterials(removed.self, recipe.materials),
                       ret |-> FALSE]
                 ELSE [self |-> added.self, ret |-> TRUE]

-----------------------------------------------------------------------------
(* quest.py.  A dict of quests is a function from the quest ids it holds   *)
(* to the Quest objects; the objectives of a quest are a sequence.         *)

NOT_STARTED == "not_started"
ACTIVE == "active"
COMPLETED == "completed"

KILL_ENEMY == "kill_enemy"
COLLECT_ITEM == "collect_item"

\* Objective.__init__
Objective(objective_id, objective_type, target, required_amount) ==
    [objective_id |-> objective_id, objective_type |-> objective_type,
     target |-> target, required_amount |-> required_amount,
     current_amount |-> 0, completed |-> FALSE]

\* Objective.update_progress
update_progress(objective, amount) ==
    LET current_amount == Min(objective.required_amount, objective.current_amount + amount)
    IN  [objective EXCEPT !.current_amount = current_amount,
                          !.completed = IF current_amount >= objective.required_amount
                                        THEN TRUE ELSE @]

\* Quest.__init__
Quest(quest_id, objectives) ==
    [quest_id |-> quest_id, objectives |-> objectives, status |-> NOT_STARTED]

\* the return value None of complete_quest
NoQuest == [quest_id |-> "None"]

\* Quest.update_objective
update_objective(quest, objective_type, target, amount) ==
    [quest EXCEPT !.objectives =
        [i \in DOMAIN @ |->
            IF /\ @[i].objective_type = objective_type
               /\ @[i].target = target
               /\ ~@[i].completed
            THEN update_progress(@[i], amount) ELSE @[i]]]

\* Mutant of check_completion: one complete objective is enough.
check_completion_Any(quest) ==
    IF quest.status # ACTIVE THEN FALSE
    ELSE \E i \in DOMAIN quest.objectives : quest.objectives[i].completed

\* Quest.check_completion
check_completion(quest) ==
    IF quest.status # ACTIVE THEN FALSE
    ELSE \A i \in DOMAIN quest.objectives : quest.objectives[i].completed

\* Quest.complete
Quest_complete(quest) ==
    IF ~check_completion(quest) THEN [self |-> quest, ret |-> FALSE]
    ELSE [self |-> [quest EXCEPT !.status = COMPLETED], ret |-> TRUE]

\* QuestManager.__init__
QuestManager ==
    [available_quests |-> [id \in {} |-> NoQuest],
     active_quests |-> [id \in {} |-> NoQuest],
     completed_quests |-> {}]

\* a dict with one more key, and with one key less
Put(dict, key, value) ==
    [k \in DOMAIN dict \cup {key} |-> IF k = key THEN value ELSE dict[k]]

Del(dict, key) == [k \in DOMAIN dict \ {key} |-> dict[k]]

register_quest(qm, quest) ==
    [qm EXCEPT !.available_quests = Put(@, quest.quest_id, quest)]

start_quest(qm, quest_id) ==
    IF quest_id \notin DOMAIN qm.available_quests THEN [self |-> qm, ret |-> FALSE]
    ELSE LET quest == [qm.available_quests[quest_id] EXCEPT !.status = ACTIVE]
         IN  [self |-> [qm EXCEPT !.active_quests = Put(@, quest_id, quest),
                                  !.available_quests = Del(@, quest_id)],
              ret |-> TRUE]

update_quest_progress(qm, objective_type, target, amount) ==
    [self |-> [qm EXCEPT !.active_quests =
                  [id \in DOMAIN @ |-> update_objective(@[id], objective_type, target, amount)]],
     ret |-> <<>>]

complete_quest(qm, quest_id) ==
    IF quest_id \notin DOMAIN qm.active_quests THEN [self |-> qm, ret |-> NoQuest]
    ELSE LET completed == Quest_complete(qm.active_quests[quest_id])
         IN  IF completed.ret
             THEN [self |-> [qm EXCEPT !.completed_quests = @ \cup {quest_id},
                                       !.active_quests = Del(@, quest_id)],
                   ret |-> completed.self]
             ELSE [self |-> qm, ret |-> NoQuest]

\* the quests of create_all_quests that the model keeps
create_all_quests ==
    register_quest(
        register_quest(QuestManager,
            Quest("first_steps",
                  <<Objective("kill_slimes", KILL_ENEMY, "slime", 3)>>)),
        Quest("goblin_threat",
              <<Objective("kill_chief", KILL_ENEMY, "goblin_chief", 1),
                Objective("collect_head", COLLECT_ITEM, "goblin_chief_head", 1)>>))

-----------------------------------------------------------------------------
(* Saving and loading (character.py, save_system.py) *)

\* Item.to_dict, of which the loader reads item_id; None for an empty slot
Item_to_dict(item) ==
    IF IsNone(item) THEN [item_id |-> "None"]
    ELSE [item_id |-> item.item_id, item_type |-> item.item_type]

\* Character.to_dict
Character_to_dict(c) ==
    [level |-> c.level, xp |-> c.xp, xp_to_next_level |-> c.xp_to_next_level,
     base_stats |-> c.base_stats,
     equipment_bonuses |-> c.equipment_bonuses,
     equipped |-> [slot \in {"weapon", "armor", "accessory"} |->
                      Item_to_dict(c.equipped[slot])],
     is_alive |-> c.is_alive, gold |-> c.gold, stat_points |-> c.stat_points]

\* Character.from_dict: a new Character with the saved fields; its slots stay empty
from_dict(data) ==
    [NewCharacter EXCEPT !.level = data.level,
                         !.xp = data.xp,
                         !.xp_to_next_level = data.xp_to_next_level,
                         !.base_stats = data.base_stats,
                         !.equipment_bonuses = data.equipment_bonuses,
                         !.is_alive = data.is_alive,
                         !.gold = data.gold,
                         !.stat_points = data.stat_points]

\* GameState.load_game: one pass of `for slot, item_data in equipped.items()`
RestoreSlot(c, data, slot) ==
    LET item_data == data.equipped[slot]
    IN  IF item_data.item_id = "None" THEN c
        ELSE LET item == create_item(item_data.item_id)
             IN  IF IsNone(item) THEN c ELSE equip_item(c, item, slot).self

\* GameState.load_game, the character of the loaded state
load_game(data) ==
    LET c0 == from_dict(data)
        c1 == RestoreSlot(c0, data, "weapon")
        c2 == RestoreSlot(c1, data, "armor")
    IN  RestoreSlot(c2, data, "accessory")

\* GameState.save_game, the character's part of the save
save_game(c) == Character_to_dict(c)

-----------------------------------------------------------------------------
(* The session as one record, and back *)

Session ==
    [character |-> character, enemy |-> enemy, turn_count |-> turn_count,
     result |-> result, combat_log |-> combat_log, is_defending |-> is_defending,
     flee_attempts |-> flee_attempts, flee_chance |-> flee_chance,
     ret |-> <<>>, turn_messages |-> <<>>, done |-> FALSE]

\* The enemy is changed in place: if the object is a registered one, the registry
\* shows the change.
Stored(db, ref, e) == IF ref = NewObject THEN db ELSE [db EXCEPT ![ref] = e]

Becomes(st) ==
    /\ character' = st.character
    /\ enemy' = st.enemy
    /\ enemies_db' = Stored(enemies_db, enemy_ref, st.enemy)
    /\ turn_count' = st.turn_count
    /\ result' = st.result
    /\ combat_log' = st.combat_log
    /\ is_defending' = st.is_defending
    /\ flee_attempts' = st.flee_attempts
    /\ flee_chance' = st.flee_chance

\* combat = Combat(character, enemy), in a game whose inventory and quests are new
NewSession(c, e) ==
    /\ character = c
    /\ enemy = e
    /\ turn_count = 0
    /\ result = ONGOING
    /\ combat_log = <<>>
    /\ is_defending = FALSE
    /\ flee_attempts = 0
    /\ flee_chance = 0
    /\ inventory = Inventory(DefaultCapacity)
    /\ quest_manager = create_all_quests
    /\ enemies_db = ENEMIES_DB
    /\ enemy_ref = NewObject
    /\ call = [op |-> "Combat"]
    /\ ret = <<>>
    /\ steps = 0

-----------------------------------------------------------------------------
(* Operations on the Combat session *)

ExecuteTurn(player_action, item) ==
    /\ \E st \in execute_turn(Session, player_action, item) :
          Becomes(st) /\ ret' = st.turn_messages
    /\ call' = [op |-> "execute_turn", player_action |-> player_action,
                item |-> item.item_id]
    /\ UNCHANGED <<inventory, quest_manager, enemy_ref, steps>>

AttemptFlee ==
    /\ \E st \in attempt_flee(Session) : Becomes(st) /\ ret' = st.ret
    /\ call' = [op |-> "attempt_flee"]
    /\ UNCHANGED <<inventory, quest_manager, enemy_ref, steps>>

GetRewards ==
    /\ ret' \in get_rewards(Session)
    /\ call' = [op |-> "get_rewards"]
    /\ UNCHANGED <<character, combat_vars, inventory, quest_manager, enemies_db, enemy_ref,
                   steps>>

(* An encounter is started: create_enemy or get_random_enemy_for_level, then *)
(* Combat(character, enemy)                                                  *)

Encounter(op, args, made) ==
    /\ enemy' = made.enemy
    /\ enemy_ref' = made.ref
    /\ turn_count' = 0
    /\ result' = ONGOING
    /\ combat_log' = <<>>
    /\ is_defending' = FALSE
    /\ flee_attempts' = 0
    /\ flee_chance' = 0
    /\ UNCHANGED <<character, enemies_db>>
    /\ ret' = made.enemy
    /\ call' = [op |-> op, args |-> args]
    /\ steps' = steps + 1
    /\ UNCHANGED <<inventory, quest_manager>>

StartEncounter(enemy_id) ==
    Encounter("create_enemy", <<enemy_id>>, create_enemy_from(enemies_db, enemy_id))

StartRandomEncounter ==
    \E made \in get_random_enemy_for_level(enemies_db, character.level) :
        Encounter("get_random_enemy_for_level", <<character.level>>, made)

(* Operations on the Character *)

Does(op, args, r) ==
    /\ character' = r.self
    /\ ret' = r.ret
    /\ call' = [op |-> op, args |-> args]
    /\ steps' = steps + 1
    /\ UNCHANGED <<combat_vars, inventory, quest_manager, enemies_db, enemy_ref>>

Heal(amount) == Does("heal", <<amount>>, heal(character, amount))

TakeDamage(damage) ==
    Does("take_damage", <<damage>>, Character_take_damage(character, damage))

AddXp(amount) == Does("add_xp", <<amount>>, add_xp(character, amount))

LevelUp == Does("level_up", <<>>, level_up(character))

AllocateStat(stat_name, points) ==
    Does("allocate_stat", <<stat_name, points>>, allocate_stat(character, stat_name, points))

EquipItem(item, slot) ==
    Does("equip_item", <<item.item_id, slot>>, equip_item(character, item, slot))

UnequipItem(slot) == Does("unequip_item", <<slot>>, unequip_item(character, slot))

Revive(hp_percent) ==
    Does("revive", <<hp_percent>>, [self |-> revive(character, hp_percent), ret |-> <<>>])

(* GameState.save_game, then GameState.load_game of that save *)
SaveAndLoad ==
    Does("load_game", <<>>, [self |-> load_game(save_game(character)), ret |-> TRUE])

(* Operations on the Inventory *)

InventoryDoes(op, args, r) ==
    /\ inventory' = r.self
    /\ ret' = r.ret
    /\ call' = [op |-> op, args |-> args]
    /\ steps' = steps + 1
    /\ UNCHANGED <<character, combat_vars, quest_manager, enemies_db, enemy_ref>>

AddItem(item_id, quantity) ==
    InventoryDoes("add_item", <<item_id, quantity>>, add_item(inventory, item_id, quantity))

RemoveItem(item_id, quantity) ==
    InventoryDoes("remove_item", <<item_id, quantity>>,
                  remove_item(inventory, item_id, quantity))

Craft(recipe_id) ==
    InventoryDoes("craft", <<recipe_id>>, craft(RECIPES[recipe_id], inventory))

(* Operations on the QuestManager *)

QuestManagerDoes(op, args, r) ==
    /\ quest_manager' = r.self
    /\ ret' = r.ret
    /\ call' = [op |-> op, args |-> args]
    /\ steps' = steps + 1
    /\ UNCHANGED <<character, combat_vars, inventory, enemies_db, enemy_ref>>

StartQuest(quest_id) ==
    QuestManagerDoes("start_quest", <<quest_id>>, start_quest(quest_manager, quest_id))

UpdateQuestProgress(objective_type, target, amount) ==
    QuestManagerDoes("update_quest_progress", <<objective_type, target, amount>>,
                     update_quest_progress(quest_manager, objective_type, target, amount))

CompleteQuest(quest_id) ==
    QuestManagerDoes("complete_quest", <<quest_id>>, complete_quest(quest_manager, quest_id))

(* Enemy.take_damage *)
EnemyTakeDamage(damage) ==
    /\ enemy' = Enemy_take_damage(enemy, damage).self
    /\ enemies_db' = Stored(enemies_db, enemy_ref, enemy')
    /\ ret' = Enemy_take_damage(enemy, damage).ret
    /\ call' = [op |-> "enemy_take_damage", args |-> <<damage>>]
    /\ steps' = steps + 1
    /\ UNCHANGED <<character, turn_count, result, combat_log, is_defending,
                   flee_attempts, flee_chance, inventory, quest_manager, enemy_ref>>

-----------------------------------------------------------------------------
(* Characters the specifications start from, built with the Character's    *)
(* own operations.                                                         *)

\* n level-ups, each by one add_xp grant of the current threshold
RECURSIVE Leveled(_, _)
Leveled(c, n) ==
    IF n = 0 THEN c ELSE Leveled(add_xp(c, c.xp_to_next_level).self, n - 1)

-----------------------------------------------------------------------------
(* Spec: one encounter.  A character, fresh or hurt in an earlier fight,   *)
(* meets an enemy stamped from the registry; the game loop calls           *)
(* execute_turn with any action and item, and get_rewards.                 *)

MaxTurns == 2

\* the raw damage of the earlier hit that leaves the hurt character at 5 HP
EarlierHit == 100

StartCharacters == {NewCharacter, Character_take_damage(NewCharacter, EarlierHit).self}
EncounterIds == {"slime", "goblin"}
CombatItems == {NoneItem, get_item("health_potion_small"), get_item("iron_sword")}

Init == \E c \in StartCharacters, id \in EncounterIds : NewSession(c, create_enemy(id))

Next ==
    \/ \E player_action \in CombatAction, item \in CombatItems :
          /\ turn_count < MaxTurns
          /\ player_action # USE_ITEM => IsNone(item)
          /\ ExecuteTurn(player_action, item)
    \/ /\ result # ONGOING
       /\ call.op # "get_rewards"
       /\ GetRewards

Spec == Init /\ [][Next]_vars

-----------------------------------------------------------------------------
(* SpecChar: the Character alone, under any sequence of its operations.    *)

MaxSteps == 3

\* level-ups behind the experienced starting character
StartLevelUps == 2

CharStarts == {NewCharacter, Leveled(NewCharacter, StartLevelUps)}
HealAmounts == {30}
DamageAmounts == {60, 200}
XpGrants == {50, 1000}
AllocStats == {"max_hp", "defense", "hp", "charisma"}
AllocPoints == {2, 6}
EquipItems == {create_item("staff_mage"), create_item("cloth_armor"),
               create_item("silver_amulet"), create_item("iron_sword")}
EquipSlots == {"weapon", "armor", "ring"}

InitChar == \E c \in CharStarts : NewSession(c, create_enemy("slime"))

NextChar ==
    \/ \E amount \in HealAmounts : steps < MaxSteps /\ Heal(amount)
    \/ \E damage \in DamageAmounts : steps < MaxSteps /\ TakeDamage(damage)
    \/ \E amount \in XpGrants : steps < MaxSteps /\ AddXp(amount)
    \/ steps < MaxSteps /\ LevelUp
    \/ \E stat_name \in AllocStats, points \in AllocPoints :
          steps < MaxSteps /\ AllocateStat(stat_name, points)
    \/ \E item \in EquipItems, slot \in EquipSlots :
          steps < MaxSteps /\ EquipItem(item, slot)
    \/ \E slot \in EquipSlots : steps < MaxSteps /\ UnequipItem(slot)

SpecChar == InitChar /\ [][NextChar]_vars

-----------------------------------------------------------------------------
(* SpecDamage: take_damage on a Character and on an Enemy, for every raw   *)
(* damage and defense of a range.  The character's defense is 10 plus the  *)
(* starting stat points put into it; the enemy is constructed with any     *)
(* defense and hit points.                                                 *)

MaxHits == 1
MaxRaw == 14
MaxDefense == 5
MaxEnemyHp == 4

\* Character.__init__: self.stat_points = 5
StartingPoints == 5

DamageCharacters ==
    {allocate_stat(c, "defense", points).self :
        c \in StartCharacters, points \in 0..StartingPoints}
DamageEnemies ==
    {Enemy("dummy", 1, hp, 1, defense, 1, 0, 0, <<>>) :
        hp \in 1..MaxEnemyHp, defense \in 0..MaxDefense}

InitDamage == \E c \in DamageCharacters, e \in DamageEnemies : NewSession(c, e)

NextDamage ==
    \/ \E damage \in 0..MaxRaw : steps < MaxHits /\ TakeDamage(damage)
    \/ \E damage \in 0..MaxRaw : steps < MaxHits /\ EnemyTakeDamage(damage)

SpecDamage == InitDamage /\ [][NextDamage]_vars

-----------------------------------------------------------------------------
(* SpecFlee: attempt_flee, called again and again in one encounter, for    *)
(* characters of several levels and agilities against several enemies.     *)

MaxFleeAttempts == 6

\* level-ups behind the veteran who flees from anything
VeteranLevelUps == 9

FleeCharacters ==
    {allocate_stat(c, "agility", points).self :
        c \in {NewCharacter, Leveled(NewCharacter, VeteranLevelUps)},
        points \in {0, StartingPoints}}

InitFlee ==
    \E c \in FleeCharacters, id \in DOMAIN ENEMIES_DB : NewSession(c, create_enemy(id))

NextFlee == flee_attempts < MaxFleeAttempts /\ AttemptFlee

SpecFlee == InitFlee /\ [][NextFlee]_vars

-----------------------------------------------------------------------------
(* SpecRewards: get_rewards for every result, enemy and luck of a range.   *)
(* The character has levelled up and put stat points into luck; the        *)
(* session's result is set on a new session, as test_combat_rewards does.  *)

MaxLuckPoints == 20

\* level-ups behind the character that collects the rewards
RewardLevelUps == 6

RewardCharacters ==
    {allocate_stat(Leveled(NewCharacter, RewardLevelUps), "luck", points).self :
        points \in 0..MaxLuckPoints}

InitRewards ==
    \E c \in RewardCharacters, id \in DOMAIN ENEMIES_DB, r \in CombatResult :
        /\ character = c
        /\ enemy = create_enemy(id)
        /\ result = r
        /\ turn_count = 0
        /\ combat_log = <<>>
        /\ is_defending = FALSE
        /\ flee_attempts = 0
        /\ flee_chance = 0
        /\ inventory = Inventory(DefaultCapacity)
        /\ quest_manager = create_all_quests
        /\ enemies_db = ENEMIES_DB
        /\ enemy_ref = NewObject
        /\ call = [op |-> "Combat"]
        /\ ret = <<>>
        /\ steps = 0

NextRewards == call.op # "get_rewards" /\ GetRewards

SpecRewards == InitRewards /\ [][NextRewards]_vars

-----------------------------------------------------------------------------
(* SpecXp: add_xp with the xp rewards of the registry's enemies, for       *)
(* characters with the starting stat points put into intelligence, with    *)
(* and without the mage's staff (intelligence +15) in hand.                *)

MaxGrants == 2

XpRewards == {ENEMIES_DB[id].xp_reward : id \in DOMAIN ENEMIES_DB}

XpCharacters ==
    LET scholars == {allocate_stat(NewCharacter, "intelligence", points).self :
                        points \in 0..StartingPoints}
    IN  scholars \cup {equip_item(c, create_item("staff_mage"), "weapon").self :
                          c \in scholars}

InitXp == \E c \in XpCharacters : NewSession(c, create_enemy("slime"))

NextXp == \E amount \in XpRewards : steps < MaxGrants /\ AddXp(amount)

SpecXp == InitXp /\ [][NextXp]_vars

-----------------------------------------------------------------------------
(* SpecEquip: a new Character that equips and unequips, in every slot and  *)
(* in a slot that does not exist, registry items with and without stats    *)
(* and a weapon constructed without a stats payload, and puts stat points  *)
(* into strength.                                                          *)

MaxEquipSteps == 3

\* Weapon(..., damage=12) with stats left at None
PlainWeapon == Weapon("plain_blade", 12, NoStats)

WornItems == EquipItems \cup {PlainWeapon, create_item("iron_ore")}
AllSlots == Slots \cup {"ring"}

InitEquip == NewSession(NewCharacter, create_enemy("slime"))

NextEquip ==
    \/ \E item \in WornItems, slot \in AllSlots :
          steps < MaxEquipSteps /\ EquipItem(item, slot)
    \/ \E slot \in AllSlots : steps < MaxEquipSteps /\ UnequipItem(slot)
    \/ \E points \in AllocPoints :
          steps < MaxEquipSteps /\ AllocateStat("strength", points)

SpecEquip == InitEquip /\ [][NextEquip]_vars

-----------------------------------------------------------------------------
(* SpecSave: a game in which the character puts on equipment, each item in *)
(* the slot of its type, is hurt and gains experience, and which is saved  *)
(* and loaded back at any point.                                           *)

MaxSaveSteps == 3

SlotOf(item) ==
    IF item.item_type = WEAPON THEN "weapon"
    ELSE IF item.item_type = ARMOR THEN "armor" ELSE "accessory"

InitSave == NewSession(NewCharacter, create_enemy("slime"))

NextSave ==
    \/ \E item \in EquipItems : steps < MaxSaveSteps /\ EquipItem(item, SlotOf(item))
    \/ \E damage \in DamageAmounts : steps < MaxSaveSteps /\ TakeDamage(damage)
    \/ \E amount \in XpGrants : steps < MaxSaveSteps /\ AddXp(amount)
    \/ steps < MaxSaveSteps /\ SaveAndLoad

SpecSave == InitSave /\ [][NextSave]_vars

-----------------------------------------------------------------------------
(* SpecInventory: an Inventory of a small capacity, as the tests construct *)
(* one, under any sequence of add_item and remove_item with positive       *)
(* quantities and known and unknown item ids, and of Recipe.craft.         *)

MaxInventorySteps == 4
MaxCapacity == 6

StoredIds == {"iron_ore", "wood_plank", "mystery_box"}
Quantities == {1, 3}

InitInventory ==
    /\ character = NewCharacter
    /\ enemy = create_enemy("slime")
    /\ turn_count = 0
    /\ result = ONGOING
    /\ combat_log = <<>>
    /\ is_defending = FALSE
    /\ flee_attempts = 0
    /\ flee_chance = 0
    /\ inventory = Inventory(MaxCapacity)
    /\ quest_manager = create_all_quests
    /\ enemies_db = ENEMIES_DB
    /\ enemy_ref = NewObject
    /\ call = [op |-> "Inventory"]
    /\ ret = <<>>
    /\ steps = 0

NextInventory ==
    \/ \E item_id \in StoredIds, quantity \in Quantities :
          steps < MaxInventorySteps /\ AddItem(item_id, quantity)
    \/ \E item_id \in StoredIds, quantity \in Quantities :
          steps < MaxInventorySteps /\ RemoveItem(item_id, quantity)
    \/ \E recipe_id \in DOMAIN RECIPES : steps < MaxInventorySteps /\ Craft(recipe_id)

SpecInventory == InitInventory /\ [][NextInventory]_vars

-----------------------------------------------------------------------------
(* SpecQuest: the QuestManager of create_all_quests under any sequence of  *)
(* start_quest, update_quest_progress and complete_quest, with registered  *)
(* and unregistered quest ids and matching and non-matching targets.       *)

MaxQuestSteps == 5

QuestIds == DOMAIN create_all_quests.available_quests \cup {"lost_heirloom"}
Targets == {"slime", "goblin_chief", "goblin_chief_head"}
ProgressAmounts == {1, 3}

InitQuest ==
    /\ character = NewCharacter
    /\ enemy = create_enemy("slime")
    /\ turn_count = 0
    /\ result = ONGOING
    /\ combat_log = <<>>
    /\ is_defending = FALSE
    /\ flee_attempts = 0
    /\ flee_chance = 0
    /\ inventory = Inventory(DefaultCapacity)
    /\ quest_manager = create_all_quests
    /\ enemies_db = ENEMIES_DB
    /\ enemy_ref = NewObject
    /\ call = [op |-> "create_all_quests"]
    /\ ret = <<>>
    /\ steps = 0

NextQuest ==
    \/ \E quest_id \in QuestIds : steps < MaxQuestSteps /\ StartQuest(quest_id)
    \/ \E objective_type \in {KILL_ENEMY, COLLECT_ITEM}, target \in Targets,
          amount \in ProgressAmounts :
          steps < MaxQuestSteps /\ UpdateQuestProgress(objective_type, target, amount)
    \/ \E quest_id \in QuestIds : steps < MaxQuestSteps /\ CompleteQuest(quest_id)

SpecQuest == InitQuest /\ [][NextQuest]_vars

-----------------------------------------------------------------------------
(* SpecOrder: encounters of characters of agility 10 and 13 with enemies   *)
(* slower by 10 and more, about as fast, and faster by 10 and by more.     *)

MaxOrderTurns == 2

\* points put into agility by the quicker character
AgilityPoints == 3

OrderCharacters == {NewCharacter, allocate_stat(NewCharacter, "agility", AgilityPoints).self}

\* the registered enemies of agility 20 and 25
FastEnemies ==
    {Enemy("demon", 12, 220, 40, 28, 20, 250, 150,
           <<<<"health_potion_supreme", 500>>, <<"phoenix_down", 200>>,
             <<"ring_strength", 100>>, <<"enchanted_crystal", 400>>>>),
     Enemy("dragon", 15, 500, 50, 40, 25, 500, 500,
           <<<<"dragon_slayer", 500>>, <<"dragon_armor", 400>>, <<"dragon_scale", 1000>>,
             <<"health_potion_supreme", 800>>, <<"phoenix_down", 300>>>>)}

OrderEnemies == {create_enemy("slime")} \cup FastEnemies

InitOrder == \E c \in OrderCharacters, e \in OrderEnemies : NewSession(c, e)

NextOrder ==
    \E player_action \in {ATTACK, DEFEND} :
        turn_count < MaxOrderTurns /\ ExecuteTurn(player_action, NoneItem)

SpecOrder == InitOrder /\ [][NextOrder]_vars

-----------------------------------------------------------------------------
(* SpecAttack: encounters in which the player attacks in every turn, with  *)
(* the slime and with an Enemy of few hit points whose defense lets a      *)
(* plain attack through for 1 only; execute_turn is also called after the  *)
(* end.                                                                    *)

MaxAttackTurns == 4

\* hit points of the armoured enemy
ArmouredHp == 3

\* its defense is the dragon's, its strength and agility are the slime's
ArmouredEnemy == Enemy("armoured", 1, ArmouredHp, 5, 40, 3, 10, 5, <<>>)

InitAttack ==
    \E e \in {create_enemy("slime"), ArmouredEnemy} : NewSession(NewCharacter, e)

NextAttack == turn_count < MaxAttackTurns /\ ExecuteTurn(ATTACK, NoneItem)

SpecAttack == InitAttack /\ [][NextAttack]_vars

-----------------------------------------------------------------------------
(* SpecAlive: a character, fresh or with experience in stock, under        *)
(* take_damage, heal, level_up, allocate_stat, equip_item, unequip_item    *)
(* and revive.                                                             *)

MaxAliveSteps == 3

\* the grant that leaves the second character with experience for a level_up
StockedXp == 300
\* revive's default hp_percentage, in hundredths
DefaultRevive == 50

AliveStarts == {NewCharacter, add_xp(NewCharacter, StockedXp).self}

InitAlive == \E c \in AliveStarts : NewSession(c, create_enemy("slime"))

NextAlive ==
    \/ \E damage \in DamageAmounts : steps < MaxAliveSteps /\ TakeDamage(damage)
    \/ \E amount \in HealAmounts : steps < MaxAliveSteps /\ Heal(amount)
    \/ steps < MaxAliveSteps /\ LevelUp
    \/ \E points \in AllocPoints : steps < MaxAliveSteps /\ AllocateStat("max_hp", points)
    \/ \E item \in {create_item("cloth_armor")} :
          steps < MaxAliveSteps /\ EquipItem(item, SlotOf(item))
    \/ steps < MaxAliveSteps /\ UnequipItem("armor")
    \/ steps < MaxAliveSteps /\ Revive(DefaultRevive)

SpecAlive == InitAlive /\ [][NextAlive]_vars

-----------------------------------------------------------------------------
(* SpecLevels: a new character is granted experience, in small and in      *)
(* large amounts, and level_up is called, as often as the caller likes.    *)

MaxLevelSteps == 5

LevelGrants == {50, 400, 1000}

InitLevels == NewSession(NewCharacter, create_enemy("slime"))

NextLevels ==
    \/ \E amount \in LevelGrants : steps < MaxLevelSteps /\ AddXp(amount)
    \/ steps < MaxLevelSteps /\ LevelUp

SpecLevels == InitLevels /\ [][NextLevels]_vars

-----------------------------------------------------------------------------
(* SpecEncounter: encounter after encounter of one character, each started *)
(* through create_enemy or get_random_enemy_for_level and fought with      *)
(* attacks for some turns.                                                 *)

MaxEncounters == 2
MaxEncounterTurns == 1

InitEncounter == \E id \in EncounterIds : NewSession(NewCharacter, create_enemy(id))

NextEncounter ==
    \/ \E enemy_id \in EncounterIds : steps < MaxEncounters /\ StartEncounter(enemy_id)
    \/ steps < MaxEncounters /\ StartRandomEncounter
    \/ turn_count < MaxEncounterTurns /\ ExecuteTurn(ATTACK, NoneItem)

SpecEncounter == InitEncounter /\ [][NextEncounter]_vars

-----------------------------------------------------------------------------
(* Properties.  `call` is the operation of the last step with its          *)
(* arguments and `ret` the value it returned, so that a step of an         *)
(* operation is one whose call' names it.                                  *)

Range(seq) == {seq[i] : i \in DOMAIN seq}
PlayerAttackMsgs == {"player_attack", "player_crit"}
EnemyMsgs == {"enemy_attack", "dodged"}
AbortMsgs == {"no_item", "cannot_use"}

\* a step of execute_turn with this player action, begun while the encounter was ONGOING
TurnOf(player_action) ==
    /\ call'.op = "execute_turn"
    /\ call'.player_action = player_action
    /\ result = ONGOING

\* C1: once result has left ONGOING, no later operation changes it.
C1_ResultMonotonic == [][result # ONGOING => result' = result]_vars

\* a turn was executed on an encounter that had already ended: nobody acted
C1_Witness ==
    /\ call.op = "execute_turn"
    /\ ret = <<>>
    /\ turn_count = 2
    /\ result \in {VICTORY, DEFEAT, FLED}

\* C2, as stated: a turn with ATTACK against an enemy with 1 HP always ends with the
\* enemy at 0 HP and result VICTORY, and no enemy action follows the player's attack.
C2_Original ==
    [][TurnOf(ATTACK) /\ enemy.hp = 1 =>
          /\ enemy'.hp = 0
          /\ result' = VICTORY
          /\ ret'[Len(ret')] \in PlayerAttackMsgs]_vars

\* C2, corrected: in a turn with ATTACK against an enemy with 1 HP, if the player's
\* attack is carried out the enemy ends at 0 HP, result is VICTORY and the attack is
\* the last thing that happens in the turn; the attack is not carried out only when
\* the enemy acted first and killed the player, and then result is DEFEAT and the
\* enemy keeps its 1 HP.
C2_KillingBlow ==
    [][TurnOf(ATTACK) /\ enemy.hp = 1 =>
          IF Range(ret') \cap PlayerAttackMsgs # {}
          THEN /\ enemy'.hp = 0
               /\ result' = VICTORY
               /\ ret'[Len(ret')] \in PlayerAttackMsgs
               /\ \A i \in 1..(Len(ret') - 1) : ret'[i] \in EnemyMsgs
          ELSE /\ result' = DEFEAT
               /\ is_dead(character')
               /\ enemy' = enemy
               /\ ret' = <<"enemy_attack">>]_vars

\* the slime (30 HP) was left at 1 HP by a critical hit (29) in the first turn and
\* fell to a plain attack, made after the enemy's move, in the second
C2_Witness ==
    /\ call.op = "execute_turn"
    /\ call.player_action = ATTACK
    /\ enemy.enemy_id = "slime"
    /\ turn_count = 2
    /\ "player_crit" \in Range(combat_log)
    /\ Len(ret) = 2
    /\ ret[2] = "player_attack"
    /\ enemy.hp = 0
    /\ result = VICTORY

\* C3: take_damage, of a Character and of an Enemy, deals at least 1 and leaves
\* hp = max(0, hp - dealt).
C3_DamageAtLeastOne ==
    [][/\ call'.op = "take_damage" =>
            /\ ret' >= 1
            /\ character'.base_stats.hp = Max(0, character.base_stats.hp - ret')
       /\ call'.op = "enemy_take_damage" =>
            /\ ret' >= 1
            /\ enemy'.hp = Max(0, enemy.hp - ret')]_vars

\* a raw damage of 0 against a defended enemy with 1 HP still dealt 1 and killed it
C3_Witness ==
    /\ call.op = "enemy_take_damage"
    /\ call.args[1] = 0
    /\ enemy.defense > 0
    /\ ret = 1
    /\ enemy.hp = 0

\* C4, as stated: take_damage returns max(1, raw - floor(defense * 0.5)).
C4_Original ==
    [][/\ call'.op = "take_damage" =>
            ret' = Max(1, call'.args[1] - (get_stat(character, "defense") \div 2))
       /\ call'.op = "enemy_take_damage" =>
            ret' = Max(1, call'.args[1] - (enemy.defense \div 2))]_vars

\* C4, corrected: take_damage returns max(1, int(raw - defense * 0.5)), the half
\* defense subtracted before truncating, which is max(1, raw - ceil(defense / 2)):
\* the stated value for an even defense (defense 2, raw 3 gives 2), one less for an
\* odd defense whenever more than 1 is dealt.
C4_HalfDefenseRoundedUp ==
    [][/\ call'.op = "take_damage" =>
            ret' = Max(1, call'.args[1] - ((get_stat(character, "defense") + 1) \div 2))
       /\ call'.op = "enemy_take_damage" =>
            /\ ret' = Max(1, call'.args[1] - ((enemy.defense + 1) \div 2))
            /\ enemy.defense = 2 /\ call'.args[1] = 3 => ret' = 2]_vars

\* defense 3, raw 5: 3 is dealt, where raw - floor(defense / 2) is 4
C4_Witness ==
    /\ call.op = "enemy_take_damage"
    /\ enemy.defense = 3
    /\ call.args[1] = 5
    /\ ret = 3

\* C5: 0 <= hp <= effective max_hp in every state reached by heal, take_damage,
\* add_xp, level_up, allocate_stat, equip_item and unequip_item.
C5_HpWithinBounds ==
    /\ 0 <= get_current_hp(character)
    /\ get_current_hp(character) <= get_max_hp(character)

\* an item with a max_hp bonus was equipped at full health and taken off again: hp,
\* raised with the maximum by the equip, is back at the lowered maximum
C5_Witness ==
    /\ steps = 2
    /\ call.op = "unequip_item"
    /\ StatValue(ret, "max_hp") > 0
    /\ get_current_hp(character) = get_max_hp(character)
    /\ get_max_hp(character) = character.base_stats.max_hp

\* C6, as stated: in a turn where the FLEE succeeds, result becomes FLED and the
\* enemy does not act in that turn.
C6_Original ==
    [][TurnOf(FLEE) /\ "escaped" \in Range(ret') =>
          /\ result' = FLED
          /\ Range(ret') \cap EnemyMsgs = {}]_vars

\* C6, corrected: in a turn where the FLEE succeeds, result becomes FLED and the
\* turn ends with the escape: the enemy does not act after it.  An enemy that won
\* the turn order has acted before it.
C6_FleeEndsTurn ==
    [][TurnOf(FLEE) /\ "escaped" \in Range(ret') =>
          /\ result' = FLED
          /\ ret'[Len(ret')] = "escaped"
          /\ \A i \in 1..(Len(ret') - 1) : ret'[i] \in EnemyMsgs
          /\ Len(ret') = 1 => character' = character]_vars

\* the enemy attacked first and the player escaped afterwards
C6_Witness ==
    /\ call.op = "execute_turn"
    /\ call.player_action = FLEE
    /\ ret = <<"enemy_attack", "escaped">>
    /\ result = FLED

\* C7, as stated: a turn with USE_ITEM and no item or a non-consumable item changes
\* nothing on the character through the item, ends with the player's aborted action
\* and leaves result ONGOING.
C7_Original ==
    [][TurnOf(USE_ITEM) /\ call'.item \in {"None", "iron_sword"} =>
          /\ result' = ONGOING
          /\ ret'[Len(ret')] \in AbortMsgs]_vars

\* C7, corrected: in such a turn, once the player's action is reached it is aborted:
\* the item is not applied, nobody acts after it and result stays ONGOING.  The
\* action is not reached only when the enemy acted first and killed the player, and
\* then the turn ends with result DEFEAT.
C7_ItemUseAborted ==
    [][TurnOf(USE_ITEM) /\ call'.item \in {"None", "iron_sword"} =>
          IF Range(ret') \cap AbortMsgs # {}
          THEN /\ result' = ONGOING
               /\ ret'[Len(ret')] = (IF call'.item = "None" THEN "no_item" ELSE "cannot_use")
               /\ \A i \in 1..(Len(ret') - 1) : ret'[i] \in EnemyMsgs
               /\ "item_used" \notin Range(ret')
               /\ character'.base_stats.hp <= character.base_stats.hp
               /\ [character' EXCEPT !.base_stats.hp = 0, !.is_alive = TRUE]
                    = [character EXCEPT !.base_stats.hp = 0, !.is_alive = TRUE]
               /\ enemy' = enemy
               /\ Len(ret') = 1 => character' = character /\ combat_log' = combat_log
          ELSE /\ result' = DEFEAT
               /\ ret' = <<"enemy_attack">>]_vars

\* the enemy attacked first, then the sword could not be used and the turn ended
C7_Witness ==
    /\ call.op = "execute_turn"
    /\ call.player_action = USE_ITEM
    /\ call.item = "iron_sword"
    /\ ret = <<"enemy_attack", "cannot_use">>
    /\ result = ONGOING

\* C8: the chance of the k-th flee attempt (k counted after the increment) is
\* clamp(0.5 - 0.1 k + 0.01 agility - 0.05 (enemy level - character level), 0.1, 0.9),
\* within [0.1, 0.9], and 0.5 for the first attempt at agility 10 and equal levels.
\* Chances are in thousandths.
C8_FleeChance ==
    [][call'.op = "attempt_flee" =>
          LET k == flee_attempts'
              unclamped == 500 - 100 * k + 10 * get_stat(character, "agility")
                               - 50 * (enemy.level - character.level)
          IN  /\ k = flee_attempts + 1
              /\ flee_chance' = (IF unclamped < 100 THEN 100
                                 ELSE IF unclamped > 900 THEN 900 ELSE unclamped)
              /\ 100 <= flee_chance' /\ flee_chance' <= 900
              /\ (k = 1 /\ get_stat(character, "agility") = 10
                        /\ enemy.level = character.level) => flee_chance' = 500]_vars

\* the first attempt of a level-1 character of agility 10 against the level-1 slime
C8_Witness ==
    /\ call.op = "attempt_flee"
    /\ flee_attempts = 1
    /\ get_stat(character, "agility") = 10
    /\ enemy.level = character.level
    /\ flee_chance = 500

\* C9, as stated: get_rewards returns xp 0, gold 0 and no loot unless result is
\* VICTORY; on VICTORY xp is the enemy's xp reward, gold is the gold reward plus
\* floor(gold reward * 0.01 * luck), and loot is a selection from the loot table in
\* which every entry is kept or dropped on its own.
C9_Rewards ==
    call.op = "get_rewards" =>
        IF result # VICTORY THEN ret = [xp |-> 0, gold |-> 0, loot |-> <<>>]
        ELSE /\ ret.xp = enemy.xp_reward
             /\ ret.gold = enemy.gold_reward
                             + ((enemy.gold_reward * get_stat(character, "luck")) \div 100)
             /\ ret.loot \in LootOutcomes(enemy.loot_table)

\* C10: level_up with xp at or over the threshold raises level by 1, subtracts the
\* old threshold from xp, sets the threshold to floor(100 * 1.5^(level - 1)) for the
\* new level, adds 3 + floor(level / 5) stat points, adds 10 to base max_hp and sets
\* hp to the effective maximum; so does the level-up add_xp triggers, after adding
\* at least the granted amount to xp.  From level 1 with threshold 100 it gives
\* level 2, threshold 150 and 3 more stat points.
C10_LevelUp ==
    [][(\/ call'.op = "level_up" /\ character.xp >= character.xp_to_next_level
        \/ call'.op = "add_xp" /\ ret' = TRUE) =>
          LET new_level == character.level + 1
          IN  /\ ret' = TRUE
              /\ character'.level = new_level
              /\ call'.op = "level_up" =>
                    character'.xp = character.xp - character.xp_to_next_level
              /\ call'.op = "add_xp" =>
                    character'.xp >= character.xp + call'.args[1]
                                        - character.xp_to_next_level
              /\ character'.xp >= 0
              /\ character'.xp_to_next_level
                    = (100 * Pow(3, new_level - 1)) \div Pow(2, new_level - 1)
              /\ character'.stat_points = character.stat_points + 3 + (new_level \div 5)
              /\ character'.base_stats.max_hp = character.base_stats.max_hp + 10
              /\ character'.base_stats.hp = get_max_hp(character')
              /\ (character.level = 1 /\ character.xp_to_next_level = 100) =>
                    /\ character'.level = 2
                    /\ character'.xp_to_next_level = 150
                    /\ character'.stat_points = character.stat_points + 3]_vars

\* a direct level_up to level 5, the first level with a bonus stat point: the grant
\* before it had left more xp than the threshold of level 4
C10_Witness ==
    /\ call.op = "level_up"
    /\ ret = TRUE
    /\ character.level = 5
    /\ character.xp_to_next_level = 506
    /\ character.base_stats.hp = get_max_hp(character)

\* C11: level_up called with xp below the threshold returns False and changes
\* nothing of the character, at every such call.
C11_LevelUpNoOp ==
    [][(call'.op = "level_up" /\ character.xp < character.xp_to_next_level) =>
          /\ ret' = FALSE
          /\ character' = character]_vars

\* a hurt character, one stat allocation behind it, called level_up without the
\* experience for it
C11_Witness ==
    /\ call.op = "level_up"
    /\ ret = FALSE
    /\ steps = 3
    /\ character.xp < character.xp_to_next_level
    /\ character.base_stats.hp < get_max_hp(character)
    /\ character.stat_points < 5

\* C12, as stated: add_xp(amount) adds floor(amount * (1 + 0.01 * intelligence)) to
\* xp, intelligence being the effective value, before it checks for a level-up (which
\* subtracts the threshold).
C12_AwardedXp ==
    [][call'.op = "add_xp" =>
          LET amount == call'.args[1]
              awarded == (amount * (100 + get_stat(character, "intelligence"))) \div 100
          IN  character'.xp = character.xp + awarded
                                - (IF ret' THEN character.xp_to_next_level ELSE 0)]_vars

\* C13: allocate_stat(stat, points) returns False and changes nothing when stat is
\* no base stat, is 'hp', or points exceed stat_points; otherwise it returns True,
\* takes points from stat_points and adds them to the stat (5 per point to both
\* max_hp and hp for 'max_hp') and changes nothing else; stat_points is never
\* negative.
C13_AllocateStat ==
    [][call'.op = "allocate_stat" =>
          LET stat == call'.args[1]
              points == call'.args[2]
              refused ==
                  \/ stat \notin {"max_hp", "hp", "strength", "defense", "agility",
                                  "intelligence", "luck"}
                  \/ stat = "hp"
                  \/ points > character.stat_points
              base == character.base_stats
          IN  IF refused
              THEN ret' = FALSE /\ character' = character
              ELSE /\ ret' = TRUE
                   /\ character'.stat_points = character.stat_points - points
                   /\ character'.stat_points >= 0
                   /\ character'.base_stats =
                         IF stat = "max_hp"
                         THEN [base EXCEPT !.max_hp = @ + 5 * points, !.hp = @ + 5 * points]
                         ELSE [base EXCEPT ![stat] = @ + points]
                   /\ [character' EXCEPT !.stat_points = 0, !.base_stats = base]
                        = [character EXCEPT !.stat_points = 0]]_vars

\* a hurt character put 2 points into max_hp
C13_Witness ==
    /\ call.op = "allocate_stat"
    /\ call.args = <<"max_hp", 2>>
    /\ ret = TRUE
    /\ get_current_hp(character) < get_max_hp(character)
    /\ get_current_hp(character) > 10

\* C14: heal(amount) returns min(amount, effective max_hp - hp) and adds that to hp,
\* which so never exceeds the effective max_hp.
C14_Heal ==
    [][call'.op = "heal" =>
          LET amount == call'.args[1]
              room == get_max_hp(character) - character.base_stats.hp
          IN  /\ ret' = (IF amount < room THEN amount ELSE room)
              /\ character'.base_stats.hp = character.base_stats.hp + ret'
              /\ character'.base_stats.hp <= get_max_hp(character')
              /\ [character' EXCEPT !.base_stats.hp = 0]
                   = [character EXCEPT !.base_stats.hp = 0]]_vars

\* a heal that was cut short by the maximum: less than the amount was restored
C14_Witness ==
    /\ call.op = "heal"
    /\ ret > 0
    /\ ret < call.args[1]
    /\ get_current_hp(character) = get_max_hp(character)

\* C15, as stated: equip_item with an item that carries a max_hp bonus v raises hp
\* by exactly v and never lowers hp, whether the slot was empty or held an item.
C15_Original ==
    [][(call'.op = "equip_item" /\ call'.args[2] \in {"weapon", "armor", "accessory"}) =>
          LET v == StatValue(character'.equipped[call'.args[2]], "max_hp")
          IN  /\ character'.base_stats.hp = character.base_stats.hp + v
              /\ character'.base_stats.hp >= character.base_stats.hp]_vars

\* C15, corrected: equip_item into an empty slot raises hp by exactly the item's
\* max_hp bonus v and never lowers it.  Into a slot that holds an item it first
\* unequips that item, which clamps hp to the effective max_hp without it, and then
\* adds v: hp becomes min(hp, max_hp without the old item) + v, which is lower than
\* before when the old item's bonus was in use and exceeds v.
C15_EquipHp ==
    [][(call'.op = "equip_item" /\ call'.args[2] \in {"weapon", "armor", "accessory"}) =>
          LET slot == call'.args[2]
              old_item == character.equipped[slot]
              v == StatValue(character'.equipped[slot], "max_hp")
              without_old == get_max_hp(character) - StatValue(old_item, "max_hp")
              hp == character.base_stats.hp
          IN  /\ ret' = old_item
              /\ character'.base_stats.hp
                    = (IF hp < without_old THEN hp ELSE without_old) + v
              /\ IsNone(old_item) =>
                    /\ character'.base_stats.hp = hp + v
                    /\ character'.base_stats.hp >= hp]_vars

\* at full health the mage's staff (max_hp +20) was replaced by the iron sword (no
\* max_hp bonus): hp went from 120 to 100
C15_Witness ==
    /\ steps = 2
    /\ call.op = "equip_item"
    /\ call.args = <<"iron_sword", "weapon">>
    /\ ret.item_id = "staff_mage"
    /\ character.level = 1
    /\ get_current_hp(character) = 100

\* C16: after any sequence of equip_item and unequip_item on a new Character every
\* entry of equipment_bonuses is the sum of that stat's payload over the items held
\* in the three slots, so with every slot empty all bonuses are 0, and the effective
\* stat is base + that sum.
C16_BonusesAreSums ==
    \A stat \in {"max_hp", "strength", "defense", "agility", "intelligence", "luck"} :
        LET held == StatValue(character.equipped.weapon, stat)
                      + StatValue(character.equipped.armor, stat)
                      + StatValue(character.equipped.accessory, stat)
        IN  /\ character.equipment_bonuses[stat] = held
            /\ get_stat(character, stat) = character.base_stats[stat] + held
            /\ (\A slot \in {"weapon", "armor", "accessory"} :
                    IsNone(character.equipped[slot]))
                  => character.equipment_bonuses[stat] = 0

\* the third step took the amulet off, the last item held: every slot is empty and
\* every bonus is back at 0
C16_Witness ==
    /\ steps = 3
    /\ call.op = "unequip_item"
    /\ ret.item_id = "silver_amulet"
    /\ \A slot \in Slots : IsNone(character.equipped[slot])
    /\ \A stat \in BonusStatNames : character.equipment_bonuses[stat] = 0

\* C17: in every reachable state get_attack_damage() is 2 * effective strength plus
\* the damage of the item in the weapon slot (nothing for an empty slot or an item
\* without damage); 20 with strength 10 and no weapon, 32 with a weapon of damage 12
\* that has no strength payload.
C17_AttackDamage ==
    LET weapon == character.equipped.weapon
        strength == character.base_stats.strength + character.equipment_bonuses.strength
        dealt == Character_get_attack_damage(character)
    IN  /\ dealt = 2 * strength + (IF IsNone(weapon) THEN 0 ELSE weapon.damage)
        /\ (strength = 10 /\ IsNone(weapon)) => dealt = 20
        /\ (strength = 10 /\ weapon.damage = 12) => dealt = 32

\* the weapon of damage 12 without payload in the hand of a character of strength 10
C17_Witness ==
    /\ call.op = "equip_item"
    /\ call.args = <<"plain_blade", "weapon">>
    /\ get_stat(character, "strength") = 10
    /\ Character_get_attack_damage(character) = 32

\* C18, as stated: saving and loading back yields a character whose base stats,
\* equipment bonuses, level, xp and xp_to_next_level are those before the save,
\* also with items equipped.
C18_RoundTrip ==
    [][call'.op = "load_game" =>
          /\ character'.base_stats = character.base_stats
          /\ character'.equipment_bonuses = character.equipment_bonuses
          /\ character'.level = character.level
          /\ character'.xp = character.xp
          /\ character'.xp_to_next_level = character.xp_to_next_level]_vars

\* the recipe's quantity of a material (0 for an item that is not one)
RECURSIVE NeededOf(_, _)
NeededOf(materials, item_id) ==
    IF materials = <<>> THEN 0
    ELSE (IF materials[1][1] = item_id THEN materials[1][2] ELSE 0)
         + NeededOf(Tail(materials), item_id)

Lacks(inv, materials) ==
    \E i \in 1..Len(materials) : ~has_item(inv, materials[i][1], materials[i][2])

\* C19, as stated: a craft on an inventory that lacks one of the recipe's materials
\* returns False and leaves the inventory exactly as it was; a craft that returns
\* True has removed exactly the recipe's quantities of the materials and added
\* exactly one result item.
C19_Craft ==
    [][call'.op = "craft" =>
          LET recipe == RECIPES[call'.args[1]]
          IN  /\ Lacks(inventory, recipe.materials) =>
                    ret' = FALSE /\ inventory' = inventory
              /\ ret' = TRUE =>
                    \A id \in DOMAIN ITEMS_DB :
                        get_item_count(inventory', id) =
                            get_item_count(inventory, id)
                            - NeededOf(recipe.materials, id)
                            + (IF id = recipe.result_item_id THEN 1 ELSE 0)]_vars

\* C20: the total of the quantities never exceeds max_capacity; an add_item that
\* would exceed the capacity or that names an unknown item, and a remove_item of
\* more than is held, return False and leave the inventory unchanged.
C20_Capacity ==
    [][/\ get_total_items(inventory') <= inventory'.max_capacity
       /\ (/\ call'.op = "add_item"
           /\ \/ IsNone(get_item(call'.args[1]))
              \/ get_total_items(inventory) + call'.args[2] > inventory.max_capacity)
          => ret' = FALSE /\ inventory' = inventory
       /\ (/\ call'.op = "remove_item"
           /\ call'.args[2] > get_item_count(inventory, call'.args[1]))
          => ret' = FALSE /\ inventory' = inventory]_vars

\* a known item refused by add_item because the inventory, which holds items, would
\* exceed its capacity
C20_Witness ==
    /\ call.op = "add_item"
    /\ ~IsNone(get_item(call.args[1]))
    /\ ret = FALSE
    /\ get_total_items(inventory) > 0
    /\ get_total_items(inventory) + call.args[2] > inventory.max_capacity

\* the ids registered by create_all_quests
RegisteredIds == DOMAIN create_all_quests.available_quests

AllObjectivesComplete(quest) ==
    \A i \in DOMAIN quest.objectives : quest.objectives[i].completed

\* C21: after every start_quest, update_quest_progress and complete_quest, every
\* registered quest id is in exactly one of available_quests, active_quests and
\* completed_quests; start_quest moves an available id to active; complete_quest
\* moves an active id to completed when all objectives of the quest are complete,
\* and otherwise returns None and changes nothing.
C21_QuestPartition ==
    [][LET qm == quest_manager
           after == quest_manager'
           quest_id == call'.args[1]
       IN  /\ \A id \in RegisteredIds :
                 /\ \/ id \in DOMAIN after.available_quests
                    \/ id \in DOMAIN after.active_quests
                    \/ id \in after.completed_quests
                 /\ ~(id \in DOMAIN after.available_quests /\ id \in DOMAIN after.active_quests)
                 /\ ~(id \in DOMAIN after.available_quests /\ id \in after.completed_quests)
                 /\ ~(id \in DOMAIN after.active_quests /\ id \in after.completed_quests)
           /\ (call'.op = "start_quest" /\ quest_id \in DOMAIN qm.available_quests) =>
                 /\ ret' = TRUE
                 /\ quest_id \in DOMAIN after.active_quests
                 /\ quest_id \notin DOMAIN after.available_quests
           /\ call'.op = "complete_quest" =>
                 IF /\ quest_id \in DOMAIN qm.active_quests
                    /\ AllObjectivesComplete(qm.active_quests[quest_id])
                 THEN /\ ret' # NoQuest
                      /\ quest_id \in after.completed_quests
                      /\ quest_id \notin DOMAIN after.active_quests
                 ELSE ret' = NoQuest /\ after = qm]_vars

\* the quest with two objectives has been completed
C21_Witness ==
    /\ call.op = "complete_quest"
    /\ call.args = <<"goblin_threat">>
    /\ ret # NoQuest
    /\ "goblin_threat" \in quest_manager.completed_quests

\* the place of a message in a turn's messages (0: not there)
Index(msgs, msg) ==
    IF msg \in Range(msgs) THEN CHOOSE i \in DOMAIN msgs : msgs[i] = msg ELSE 0

\* C22: is_defending, once set by DEFEND, stays set across turns, dodged attacks
\* and other player actions until the next enemy attack that is not dodged; that
\* attack's raw damage is halved, rounded down, before take_damage, and it clears
\* the flag; nothing else clears it.
C22_Defending ==
    [][IF call'.op = "execute_turn"
       THEN LET msgs == ret'
                hit == "enemy_attack" \in Range(msgs)
                defended == "defend" \in Range(msgs)
                defended_first == defended /\ hit
                                  /\ Index(msgs, "defend") < Index(msgs, "enemy_attack")
                guarded == is_defending \/ defended_first
                defense == get_stat(character, "defense")
                dealt(raw) == Max(1, raw - ((defense + 1) \div 2))
            IN  /\ is_defending' = IF defended /\ ~defended_first THEN TRUE
                                   ELSE IF hit THEN FALSE
                                   ELSE is_defending
                /\ (hit /\ call'.player_action # USE_ITEM) =>
                      \E damage \in Enemy_get_attack_damage(enemy) :
                          get_current_hp(character') =
                              Max(0, get_current_hp(character)
                                     - dealt(IF guarded THEN damage \div 2 ELSE damage))
       ELSE is_defending' = is_defending]_vars

\* the stance taken in the first turn was still there in the second, where the
\* player attacked and the enemy's hit, reduced, used it up
C22_Witness ==
    /\ call.op = "execute_turn"
    /\ call.player_action = ATTACK
    /\ turn_count = 2
    /\ ~is_defending
    /\ "defend" \in Range(combat_log)
    /\ Len(combat_log) >= 2
    /\ combat_log[Len(combat_log) - 1] = "defense_reduces"
    /\ combat_log[Len(combat_log)] = "enemy_attack"

\* C23: in every turn begun while ONGOING the order is rolled anew; the first to
\* act is the player exactly when agility + r1 >= enemy agility + r2 for rolls r1,
\* r2 in 0..10: always the player when the player's agility is at least the
\* enemy's plus 10, always the enemy when the enemy's exceeds the player's plus 10.
\* The first actor is the author of the turn's first message.
C23_TurnOrder ==
    [][(call'.op = "execute_turn" /\ result = ONGOING) =>
          LET player_agility == get_stat(character, "agility")
              enemy_agility == enemy.agility
              player_first == ret'[1] \notin EnemyMsgs
          IN  /\ player_agility >= enemy_agility + 10 => player_first
              /\ enemy_agility > player_agility + 10 => ~player_first]_vars

\* against the enemy of agility 20 the character of agility 10 acted first in the
\* first turn and second in the second turn
C23_Witness ==
    /\ call.op = "execute_turn"
    /\ turn_count = 2
    /\ enemy.agility = get_stat(character, "agility") + 10
    /\ combat_log[1] \in PlayerAttackMsgs \cup {"defend"}
    /\ ret[1] \in EnemyMsgs

\* C24: with ATTACK in every turn, a turn begun while ONGOING either ends the
\* encounter with VICTORY or DEFEAT or takes at least 1 HP from the enemy, so after
\* as many execute_turn calls as the enemy had HP at the start the result is
\* VICTORY or DEFEAT, whatever the rolls.
C24_AttackTerminates ==
    [][call'.op = "execute_turn" =>
          /\ result = ONGOING =>
                \/ result' \in {VICTORY, DEFEAT}
                \/ result' = ONGOING /\ enemy'.hp <= enemy.hp - 1
          /\ result' = ONGOING => turn_count' <= enemy'.max_hp - enemy'.hp
          /\ turn_count' >= enemy'.max_hp => result' \in {VICTORY, DEFEAT}]_vars

\* the enemy of 3 HP fell in the third turn, to the third attack
C24_Witness ==
    /\ call.op = "execute_turn"
    /\ enemy.max_hp = ArmouredHp
    /\ turn_count = enemy.max_hp
    /\ result = VICTORY
    /\ Cardinality({i \in DOMAIN combat_log : combat_log[i] \in PlayerAttackMsgs})
           = enemy.max_hp

\* C25: execute_turn called when result is VICTORY, DEFEAT or FLED returns an empty
\* list and leaves the character, the enemy, is_defending, flee_attempts, the log
\* and the result as they were; turn_count grows by exactly 1 in every call of
\* execute_turn, also in these.
C25_TerminalTurn ==
    [][call'.op = "execute_turn" =>
          /\ turn_count' = turn_count + 1
          /\ result # ONGOING =>
                /\ ret' = <<>>
                /\ character' = character
                /\ enemy' = enemy
                /\ is_defending' = is_defending
                /\ flee_attempts' = flee_attempts
                /\ combat_log' = combat_log
                /\ result' = result]_vars

\* a second turn asked for after the encounter had ended in the first
C25_Witness ==
    /\ call.op = "execute_turn"
    /\ turn_count = 2
    /\ result # ONGOING
    /\ ret = <<>>

\* C26, as stated: in every state reached by take_damage, heal, level_up,
\* allocate_stat, equip_item, unequip_item and revive, is_alive is False exactly
\* when the current HP is 0, so is_dead() holds exactly when HP is 0, and a combat
\* is DEFEAT only when the player's HP is 0.
C26_AliveIffHp ==
    /\ ~character.is_alive <=> get_current_hp(character) = 0
    /\ is_dead(character) <=> get_current_hp(character) = 0
    /\ result = DEFEAT => get_current_hp(character) = 0

\* C27: add_xp raises the level by at most 1: when the experience after the grant
\* reaches the threshold the level rises by exactly 1 and what is left after
\* subtracting that one threshold is kept, also when it still covers the next
\* threshold; a level_up that returns True takes exactly the threshold away and
\* leaves xp >= 0, and one that returns False finds 0 <= xp < xp_to_next_level and
\* changes nothing, so repeating level_up while it returns True ends there.
C27_OneLevelPerGrant ==
    [][/\ call'.op = "add_xp" =>
            \E awarded \in call'.args[1]..(2 * call'.args[1]) :
                LET reached == character.xp + awarded >= character.xp_to_next_level
                IN  /\ ret' = reached
                    /\ character'.level = character.level + (IF reached THEN 1 ELSE 0)
                    /\ character'.xp = character.xp + awarded
                          - (IF reached THEN character.xp_to_next_level ELSE 0)
       /\ call'.op = "level_up" =>
            IF ret'
            THEN /\ character'.level = character.level + 1
                 /\ character'.xp = character.xp - character.xp_to_next_level
                 /\ character'.xp >= 0
                 /\ character'.xp < character.xp
            ELSE /\ character' = character
                 /\ 0 <= character.xp
                 /\ character.xp < character.xp_to_next_level]_vars

\* one grant of 1000 raised the level to 2, three calls of level_up raised it to 5,
\* and the fourth returned False
C27_Witness ==
    /\ steps = 5
    /\ call.op = "level_up"
    /\ ret = FALSE
    /\ character.level = 5
    /\ character.xp < character.xp_to_next_level

\* C28, as stated: from every state of the character, equip_item of any item into
\* an empty slot followed at once by unequip_item of that slot leaves the current
\* HP at its value before the equip.
C28_EquipUnequipHp ==
    \A item \in EquipItems, slot \in Slots :
        IsNone(character.equipped[slot]) =>
            LET worn == equip_item(character, item, slot).self
                bare == unequip_item(worn, slot).self
            IN  get_current_hp(bare) = get_current_hp(character)

\* the registered weapons, armor and accessories
EquipmentIds == {id \in DOMAIN ITEMS_DB : HasStats(ITEMS_DB[id])}

\* C30, as stated: for every registered weapon, armor and accessory id, the item
\* made by create_item has the stat payload (with the 'defense' entry of armor),
\* the damage and the defense rating of the template get_item returns, and a
\* character who equips the copy gets the bonuses the template would give.
C30_CopyEqualsTemplate ==
    \A id \in EquipmentIds :
        LET template == get_item(id)
            copy == create_item(id)
            slot == SlotOf(template)
        IN  /\ copy.stats = template.stats
            /\ copy.damage = template.damage
            /\ copy.defense_bonus = template.defense_bonus
            /\ equip_item(character, copy, slot).self.equipment_bonuses
                  = equip_item(character, template, slot).self.equipment_bonuses

\* C29: create_enemy and get_random_enemy_for_level return an enemy of its own,
\* with hp = max_hp and the loot table of the template; no combat turn against it
\* changes the hp, the stats or the loot table of a registered template, so every
\* encounter begins with an enemy at full HP.
C29_FreshEnemy ==
    [][/\ enemies_db' = ENEMIES_DB
       /\ call'.op \in {"create_enemy", "get_random_enemy_for_level"} =>
             /\ enemy'.hp = enemy'.max_hp
             /\ enemy'.max_hp = ENEMIES_DB[enemy'.enemy_id].max_hp
             /\ enemy'.loot_table = ENEMIES_DB[enemy'.enemy_id].loot_table
             /\ enemy_ref' = NewObject
             /\ result' = ONGOING]_vars

\* a second encounter with the kind of enemy that was hurt in the first
C29_Witness ==
    /\ call.op = "create_enemy"
    /\ steps = 2
    /\ enemy.hp = enemy.max_hp
    /\ character.base_stats.hp < NewCharacter.base_stats.hp
    /\ enemies_db[enemy.enemy_id].hp = enemy.max_hp

====
